---- MODULE Spec2Model ----
(***************************************************************************)
(* QuantumPulse ledger core: the Blockchain (Ledger) with its reader/writer *)
(* lock and reentrancy guards, the MiningManager's capped mined-coin        *)
(* counter and the UTXOSet.                                                 *)
(*                                                                          *)
(* Amounts are C++ doubles in the source; the model uses integers (whole    *)
(* coins).  The source converts coins to 10^-8 units by multiplying with    *)
(* 100000000 on both sides of every comparison of the mined-coin counters;  *)
(* TLC's integers are 32 bits wide, so the counters are kept in whole coins *)
(* (every modelled reward is a whole number of coins, for which the         *)
(* conversion is exact).                                                    *)
(*                                                                          *)
(* A call is a sequence of steps of a thread.  The arguments of a call are  *)
(* bound in the step that takes the component's lock: before that step      *)
(* nothing reads them.                                                      *)
(***************************************************************************)
EXTENDS Integers, Sequences, FiniteSets, TLC

VARIABLES
  \* ---- Blockchain (Ledger), quantumpulse_blockchain_v7.h
  chain,            \* std::vector<Block> chain
  balances,         \* std::map<std::string,double> balances (public store)
  hiddenBalances,   \* std::map<std::string,double> hiddenBalances
  totalMinedCoins,  \* std::atomic<int64_t> totalMinedCoins (whole coins)
  isAddingBlock,    \* std::atomic<bool> isAddingBlock
  isTransferring,   \* std::atomic<bool> isTransferring
  chainWriter,      \* holder of chainMutex in exclusive mode, or NoThread
  chainReaders,     \* holders of chainMutex in shared mode
  lpc,              \* per thread: position in its Ledger call
  lop,              \* per thread: the call's arguments
  lres,             \* per thread: the call's return value ("none" before)
  loutcome,         \* per thread: how its last finished call ended
  loverlap,         \* per thread: its current/last call overlapped another
  lsnap,            \* the two stores when the exclusive lock was last taken
  now,              \* time(nullptr), in seconds since construction
  \* ---- MiningManager, quantumpulse_mining_v7.h
  totalMinedCoins_, \* std::atomic<int64_t> totalMinedCoins_ (whole coins)
  miningMutex_,     \* holder of miningMutex_, or NoThread
  mpc,              \* per thread: position in addMinedCoins
  mamount,          \* per thread: the amount argument
  mcurrent,         \* per thread: the local `current`
  \* ---- UTXOSet, quantumpulse_utxo_v7.h
  utxos_,           \* std::map<std::string,UTXOutput> utxos_
  addressUtxos_,    \* std::map<std::string,std::set<std::string>>
  mutex_,           \* holder of UTXOSet::mutex_, or NoThread
  upc,              \* per thread: position in its UTXOSet call
  uop,              \* per thread: the call's arguments and locals
  ures,             \* per thread: the call's return value
  uhist,            \* history: successful spends per key since its last add
  \* ---- TransactionMempool, quantumpulse_mempool_v7.h
  transactions_,    \* std::map<std::string,MempoolEntry> transactions_
  currentSize_,     \* size_t currentSize_
  feeIndex_,        \* std::priority_queue<FeeEntry>: entry -> number of copies
  madmitted,        \* history: the txids addTransaction admitted, in order
  mlast,            \* the last finished mempool call, with its result
  \* ---- Blockchain::adjustCoinPrice and the two calculateBlockReward
  lastPrice,        \* the last adjustCoinPrice call, with its result
  ledgerReward,     \* the last Blockchain::calculateBlockReward call
  miningReward,     \* the last MiningManager::calculateBlockReward call
  \* ---- MiningManager::adjustDifficulty
  currentDifficulty_, \* int currentDifficulty_
  dlast,            \* the last adjustDifficulty call
  \* ---- MiningManager::mineBlock and Block::mine
  bpc,              \* position of the caller of mineBlock or Block::mine
  bcall,            \* the arguments of the call, and the counters when it began
  bnonce,           \* int &nonce
  bhash,            \* std::string &hash
  btries,           \* history: generateHash calls of this call
  bresult,          \* what the call returns
  \* ---- ShardingManager, quantumpulse_sharding_v7.h
  shardAssignments_,\* std::unordered_map<std::string,int> shardAssignments_
  shlast,           \* the last finished ShardingManager call, with its result
  \* ---- Transaction::Transaction, quantumpulse_blockchain_v7.h
  txlast,           \* the last construction of a Transaction, with its outcome
  \* ---- UpgradeManager, quantumpulse_upgrades_v7.h
  currentVersion_,  \* std::string currentVersion_, as <<major, minor, patch>>
  versionHistory_,  \* std::vector<std::string> versionHistory_
  appliedUpdates_,  \* std::vector<std::string> appliedUpdates_
  upending,         \* history: the version before each update that is not rolled back
  upcount,          \* history: the number of updates applied
  uplast,           \* the last finished UpgradeManager call, with its result
  \* ---- SessionManager, quantumpulse_security_v7.h
  sessions_,        \* std::map<std::string,Session> sessions_
  sissued,          \* history: the session ids createSession returned, with user and address
  sdestroyed,       \* history: the session ids destroySession was called with
  selast,           \* the last finished SessionManager call, with its result
  \* ---- the locks of the components, per calling thread
  kcall,            \* per thread: the call under way, or "idle"
  kip,              \* per thread: its position in the call's lock operations
  kheld,            \* per thread: the locks it holds, in the order it took them
  kdone,            \* per thread: the number of calls that returned
  \* ---- Blockchain::transfer with double amounts (sequential callers)
  dblBalances,      \* balances, each value a double
  dblHiddenBalances,\* hiddenBalances, each value a double
  lastTransfer      \* the last completed transfer call and what it returned

ledgerVars == <<chain, balances, hiddenBalances, totalMinedCoins,
                isAddingBlock, isTransferring, chainWriter, chainReaders,
                lpc, lop, lres, loutcome, loverlap, lsnap>>
miningVars == <<totalMinedCoins_, miningMutex_, mpc, mamount, mcurrent>>
utxoVars == <<utxos_, addressUtxos_, mutex_, upc, uop, ures, uhist>>
memVars == <<transactions_, currentSize_, feeIndex_, madmitted, mlast>>
pureVars == <<lastPrice, ledgerReward, miningReward>>
diffVars == <<currentDifficulty_, dlast>>
blockMineVars == <<bpc, bcall, bnonce, bhash, btries, bresult>>
shardVars == <<shardAssignments_, shlast>>
txVars == <<txlast>>
upgradeVars == <<currentVersion_, versionHistory_, appliedUpdates_, upending, upcount, uplast>>
sessionVars == <<sessions_, sissued, sdestroyed, selast>>
lockVars == <<kcall, kip, kheld, kdone>>
amountVars == <<dblBalances, dblHiddenBalances, lastTransfer>>
vars == <<ledgerVars, now, miningVars, utxoVars, memVars, pureVars,
         diffVars,
         blockMineVars,
         shardVars,
         txVars,
         upgradeVars,
         sessionVars,
         lockVars,
         amountVars>>

Threads == {"t1", "t2"}
NoThread == "none"

(***************************************************************************)
(* Generic helpers for std::map                                            *)
(***************************************************************************)
\* m[k] += v, with operator[] inserting a zero entry for a missing key
MapAdd(m, k, v) ==
  IF k \in DOMAIN m THEN [m EXCEPT ![k] = @ + v] ELSE m @@ (k :> v)

\* m.erase(k)
MapErase(m, k) == [x \in (DOMAIN m) \ {k} |-> m[x]]

\* the sum of m's values
RECURSIVE MapSum(_)
MapSum(m) ==
  IF DOMAIN m = {} THEN 0
  ELSE LET k == CHOOSE x \in DOMAIN m : TRUE
       IN m[k] + MapSum(MapErase(m, k))

RECURSIVE SeqSum(_)
SeqSum(s) == IF s = <<>> THEN 0 ELSE Head(s) + SeqSum(Tail(s))

(***************************************************************************)
(* Strings are sequences of characters where the code looks inside them.   *)
(***************************************************************************)
\* std::string::find(pat) != npos
Contains(s, pat) ==
  \E i \in 0..(Len(s) - Len(pat)) : SubSeq(s, i + 1, i + Len(pat)) = pat

Marker == <<"_", "v", "1", "1", "_">>
EmptyToken == <<>>
PlainToken == <<"k">>
MarkedToken == <<"k">> \o Marker
\* a token that holds all of the marker but its last character
NearToken == <<"_", "v", "1", "1">>
Tokens == {EmptyToken, PlainToken, NearToken, MarkedToken}

(***************************************************************************)
(* Blockchain: construction                                                *)
(***************************************************************************)
ActiveShards == 16
PreminedCoins == 2000000
MaxMinableCoins == 3000000

\* the stealth address computed in initializePreminedAccounts (a hash string)
founderStealthAddress == "stealth_founder"

\* mutant: a first block without the reserved previous-hash prefix
GenesisBlock_Unprefixed(i) ==
  [prevHash |-> <<"0">>, hash |-> <<"g">>, difficulty |-> 4,
   reward |-> 50, transactions |-> <<>>, isOrphaned |-> FALSE, shardId |-> i]

\* the genesis block of shard i, as the constructor fills it in
GenesisBlock(i) ==
  [prevHash |-> <<"genesis_">>, hash |-> <<"g">>, difficulty |-> 4,
   reward |-> 50, transactions |-> <<>>, isOrphaned |-> FALSE, shardId |-> i]

LedgerAddresses == {"", founderStealthAddress, "alice", "bob"}
Senders == {"", founderStealthAddress, "alice"}
TransferAmounts == {0, 1000000, 2000000}

IdleOp == [name |-> "none"]

LedgerInit ==
  /\ chain = [i \in 1..ActiveShards |-> GenesisBlock(i - 1)]
  /\ balances = <<>>
  /\ hiddenBalances = (founderStealthAddress :> PreminedCoins)
  /\ totalMinedCoins = 0
  /\ isAddingBlock = FALSE
  /\ isTransferring = FALSE
  /\ chainWriter = NoThread
  /\ chainReaders = {}
  /\ lpc = [t \in Threads |-> "idle"]
  /\ lop = [t \in Threads |-> IdleOp]
  /\ lres = [t \in Threads |-> "none"]
  /\ loutcome = [t \in Threads |-> "none"]
  /\ loverlap = [t \in Threads |-> FALSE]
  /\ lsnap = <<balances, hiddenBalances>>
  /\ now = 0

(***************************************************************************)
(* chainMutex (std::shared_mutex)                                          *)
(***************************************************************************)
\* mutant: the exclusive lock excludes nobody
CanLockExclusive_Unlocked == TRUE

\* std::unique_lock<std::shared_mutex> can be taken
CanLockExclusive == chainWriter = NoThread /\ chainReaders = {}

\* mutant: a reader does not wait for the writer
CanLockShared_Unlocked == TRUE

\* std::shared_lock<std::shared_mutex> can be taken
CanLockShared == chainWriter = NoThread

\* mutant: unwinding leaves the flag as the call set it
GuardUnwound_Kept(flag) == flag

\* line 44: ~ReentrancyGuard runs when an exception unwinds the guarded
\* section, guardFlag.store(false)
GuardUnwound(flag) == FALSE

(***************************************************************************)
(* Blockchain: authentication                                              *)
(***************************************************************************)
\* mutant: no address is looked up in the hidden store
isHiddenAddress_Never(address) == FALSE

isHiddenAddress(address) == address \in DOMAIN hiddenBalances

\* mutant: the empty account name is treated like any other name
authenticateUser_NoEmptyCheck(account, authToken) ==
  IF account = founderStealthAddress /\ authToken # <<>> THEN TRUE
  ELSE authToken # <<>> /\ Contains(authToken, Marker)

authenticateUser(account, authToken) ==
  IF account = "" THEN FALSE
  ELSE IF account = founderStealthAddress /\ authToken # <<>> THEN TRUE
  ELSE authToken # <<>> /\ Contains(authToken, Marker)

(***************************************************************************)
(* Blockchain::transfer, step by step                                      *)
(***************************************************************************)
InTransfer(u) ==
  lpc[u] \in {"tr_wait", "tr_guard", "tr_check", "tr_credit_hidden",
              "tr_credit_public", "tr_exit"}
InAddBlock(u) ==
  lpc[u] \in {"ab_wait", "ab_guard", "ab_validate", "ab_count", "ab_exit"}

\* another thread is inside a transfer / an addBlock call
OtherInTransfer(t) == \E u \in Threads \ {t} : InTransfer(u)
OtherInAddBlock(t) == \E u \in Threads \ {t} : InAddBlock(u)

\* the caller enters transfer and blocks on std::unique_lock(chainMutex)
TransferInvoke(t) ==
  /\ lpc[t] = "idle"
  /\ lpc' = [lpc EXCEPT ![t] = "tr_wait"]
  /\ lres' = [lres EXCEPT ![t] = "none"]
  /\ loutcome' = [loutcome EXCEPT ![t] = "none"]
  /\ loverlap' = IF OtherInTransfer(t) THEN [u \in Threads |-> TRUE]
                 ELSE [loverlap EXCEPT ![t] = FALSE]
  /\ UNCHANGED <<chain, balances, hiddenBalances, totalMinedCoins,
                 isAddingBlock, isTransferring, chainWriter, chainReaders,
                 lop, lsnap>>

\* line 439: the exclusive lock is obtained
TransferLock(t) ==
  /\ lpc[t] = "tr_wait"
  /\ CanLockExclusive
  /\ \E from \in Senders, to \in LedgerAddresses,
        amount \in TransferAmounts, privateKey \in {EmptyToken, PlainToken} :
       lop' = [lop EXCEPT ![t] = [name |-> "transfer", from |-> from,
                                  to |-> to, amount |-> amount,
                                  privateKey |-> privateKey]]
  /\ chainWriter' = t
  /\ lsnap' = <<balances, hiddenBalances>>
  /\ lpc' = [lpc EXCEPT ![t] = "tr_guard"]
  /\ UNCHANGED <<chain, balances, hiddenBalances, totalMinedCoins,
                 isAddingBlock, isTransferring, chainReaders, lres,
                 loutcome, loverlap>>

\* line 440 and lines 33-42: ReentrancyGuard's constructor.  When the flag is
\* already set the constructor throws; unwinding releases the lock and the
\* flag stays as the call in flight set it.
TransferGuard(t) ==
  /\ lpc[t] = "tr_guard"
  /\ IF isTransferring
     THEN /\ lpc' = [lpc EXCEPT ![t] = "idle"]
          /\ loutcome' = [loutcome EXCEPT ![t] = "tr_fault"]
          /\ lop' = [lop EXCEPT ![t] = IdleOp]
          /\ chainWriter' = IF chainWriter = t THEN NoThread ELSE chainWriter
          /\ UNCHANGED isTransferring
     ELSE /\ isTransferring' = TRUE
          /\ lpc' = [lpc EXCEPT ![t] = "tr_check"]
          /\ UNCHANGED <<loutcome, lop, chainWriter>>
  /\ UNCHANGED <<chain, balances, hiddenBalances, totalMinedCoins,
                 isAddingBlock, chainReaders, lres, loverlap, lsnap>>

\* lines 443-445: from.empty() || to.empty() || amount <= 0
TransferInputsBad(op) == op.from = "" \/ op.to = "" \/ op.amount <= 0

\* mutant: the hidden branch skips authenticateUser
TransferHiddenRefused_NoAuth(op) ==
  /\ op.from \in DOMAIN hiddenBalances
  /\ hiddenBalances[op.from] < op.amount

\* lines 448-456: the sender is a key of the hidden store and the call is
\* refused (balance too small, or the key does not authenticate)
TransferHiddenRefused(op) ==
  /\ op.from \in DOMAIN hiddenBalances
  /\ \/ hiddenBalances[op.from] < op.amount
     \/ ~authenticateUser(op.from, op.privateKey)

\* lines 469-472: the sender is unknown or its public balance is too small
TransferPublicRefused(op) ==
  /\ op.from \notin DOMAIN hiddenBalances
  /\ \/ op.from \notin DOMAIN balances
     \/ balances[op.from] < op.amount

\* lines 443-475: the checks, and the debit when they pass
TransferCheck(t) ==
  /\ lpc[t] = "tr_check"
  /\ LET op == lop[t] IN
     IF TransferInputsBad(op) \/ TransferHiddenRefused(op)
        \/ TransferPublicRefused(op)
     THEN /\ lres' = [lres EXCEPT ![t] = FALSE]
          /\ lpc' = [lpc EXCEPT ![t] = "tr_exit"]
          /\ UNCHANGED <<balances, hiddenBalances>>
     ELSE IF op.from \in DOMAIN hiddenBalances
     THEN /\ hiddenBalances' = MapAdd(hiddenBalances, op.from, -op.amount)
          /\ lpc' = [lpc EXCEPT ![t] = "tr_credit_hidden"]
          /\ UNCHANGED <<balances, lres>>
     ELSE /\ balances' = MapAdd(balances, op.from, -op.amount)
          /\ lpc' = [lpc EXCEPT ![t] = "tr_credit_public"]
          /\ UNCHANGED <<hiddenBalances, lres>>
  /\ UNCHANGED <<chain, totalMinedCoins, isAddingBlock, isTransferring,
                 chainWriter, chainReaders, lop, loutcome, loverlap, lsnap>>

\* mutant: a hidden sender's credit always goes to the hidden store
HiddenCreditGoesHidden_Always(to) == TRUE

\* lines 459-463: which store the credit of a hidden sender's transfer goes to
HiddenCreditGoesHidden(to) == isHiddenAddress(to)

\* lines 459-465: the credit of a transfer from a hidden account
TransferCreditHidden(t) ==
  /\ lpc[t] = "tr_credit_hidden"
  /\ LET op == lop[t] IN
     IF HiddenCreditGoesHidden(op.to)
     THEN /\ hiddenBalances' = MapAdd(hiddenBalances, op.to, op.amount)
          /\ UNCHANGED balances
     ELSE /\ balances' = MapAdd(balances, op.to, op.amount)
          /\ UNCHANGED hiddenBalances
  /\ lres' = [lres EXCEPT ![t] = TRUE]
  /\ lpc' = [lpc EXCEPT ![t] = "tr_exit"]
  /\ UNCHANGED <<chain, totalMinedCoins, isAddingBlock, isTransferring,
                 chainWriter, chainReaders, lop, loutcome, loverlap, lsnap>>

\* lines 476-486: the credit of a transfer from a public account
TransferCreditPublic(t) ==
  /\ lpc[t] = "tr_credit_public"
  /\ balances' = MapAdd(balances, lop[t].to, lop[t].amount)
  /\ lres' = [lres EXCEPT ![t] = TRUE]
  /\ lpc' = [lpc EXCEPT ![t] = "tr_exit"]
  /\ UNCHANGED <<chain, hiddenBalances, totalMinedCoins, isAddingBlock,
                 isTransferring, chainWriter, chainReaders, lop, loutcome,
                 loverlap, lsnap>>

\* the return: ~ReentrancyGuard (line 44) clears the flag, then the lock is
\* released
TransferReturn(t) ==
  /\ lpc[t] = "tr_exit"
  /\ isTransferring' = FALSE
  /\ chainWriter' = IF chainWriter = t THEN NoThread ELSE chainWriter
  /\ lpc' = [lpc EXCEPT ![t] = "idle"]
  /\ lop' = [lop EXCEPT ![t] = IdleOp]
  /\ lres' = [lres EXCEPT ![t] = "none"]
  /\ loutcome' = [loutcome EXCEPT ![t] = "tr_done"]
  /\ lsnap' = <<balances, hiddenBalances>>
  /\ UNCHANGED <<chain, balances, hiddenBalances, totalMinedCoins,
                 isAddingBlock, chainReaders, loverlap>>

\* lines 461-463 and 476: operator[] allocates a node for a recipient that
\* has no entry yet, and the allocation can fail with std::bad_alloc after
\* the sender was debited; transfer has no handler
TransferThrow(t) ==
  /\ lpc[t] \in {"tr_credit_hidden", "tr_credit_public"}
  /\ ~(lpc[t] = "tr_credit_hidden" /\ HiddenCreditGoesHidden(lop[t].to))
  /\ lop[t].to \notin DOMAIN balances
  /\ isTransferring' = GuardUnwound(isTransferring)
  /\ chainWriter' = IF chainWriter = t THEN NoThread ELSE chainWriter
  /\ lpc' = [lpc EXCEPT ![t] = "idle"]
  /\ lop' = [lop EXCEPT ![t] = IdleOp]
  /\ lres' = [lres EXCEPT ![t] = "none"]
  /\ loutcome' = [loutcome EXCEPT ![t] = "tr_thrown"]
  /\ lsnap' = <<balances, hiddenBalances>>
  /\ UNCHANGED <<chain, balances, hiddenBalances, totalMinedCoins,
                 isAddingBlock, chainReaders, loverlap>>

(***************************************************************************)
(* Blockchain::getBalance                                                  *)
(***************************************************************************)
\* std::optional: std::nullopt is the empty set, a value v is {v}
Absent == {}
Some(v) == {v}

\* lines 545-561: the value getBalance returns in the current state
getBalance(account, authToken) ==
  IF isHiddenAddress(account)
  THEN IF ~authenticateUser(account, authToken) THEN Absent
       ELSE Some(hiddenBalances[account])
  ELSE IF ~authenticateUser(account, authToken) THEN Absent
  ELSE IF account \in DOMAIN balances THEN Some(balances[account])
  ELSE Some(0)

GetBalanceInvoke(t) ==
  /\ lpc[t] = "idle"
  /\ lpc' = [lpc EXCEPT ![t] = "gb_wait"]
  /\ lres' = [lres EXCEPT ![t] = "none"]
  /\ loutcome' = [loutcome EXCEPT ![t] = "none"]
  /\ loverlap' = [loverlap EXCEPT ![t] = FALSE]
  /\ UNCHANGED <<chain, balances, hiddenBalances, totalMinedCoins,
                 isAddingBlock, isTransferring, chainWriter, chainReaders,
                 lop, lsnap>>

\* line 542 takes the shared lock; lines 545-561 read under it
GetBalanceRead(t) ==
  /\ lpc[t] = "gb_wait"
  /\ CanLockShared
  /\ chainReaders' = chainReaders \cup {t}
  /\ \E account \in LedgerAddresses, authToken \in Tokens :
       /\ lop' = [lop EXCEPT ![t] = [name |-> "getBalance",
                                     account |-> account,
                                     authToken |-> authToken]]
       /\ lres' = [lres EXCEPT ![t] = getBalance(account, authToken)]
  /\ lpc' = [lpc EXCEPT ![t] = "gb_exit"]
  /\ UNCHANGED <<chain, balances, hiddenBalances, totalMinedCoins,
                 isAddingBlock, isTransferring, chainWriter, loutcome,
                 loverlap, lsnap>>

GetBalanceReturn(t) ==
  /\ lpc[t] = "gb_exit"
  /\ chainReaders' = chainReaders \ {t}
  /\ lpc' = [lpc EXCEPT ![t] = "idle"]
  /\ lop' = [lop EXCEPT ![t] = IdleOp]
  /\ lres' = [lres EXCEPT ![t] = "none"]
  /\ loutcome' = [loutcome EXCEPT ![t] = "gb_done"]
  /\ UNCHANGED <<chain, balances, hiddenBalances, totalMinedCoins,
                 isAddingBlock, isTransferring, chainWriter, loverlap, lsnap>>

(***************************************************************************)
(* Transaction::verify and Block::validate                                 *)
(***************************************************************************)
RequiredSignatures == 10
TransactionValidity == 86400

\* CryptoManager::verifyTransaction: no empty txId, signature or sender, and
\* the signature starts with one of the two accepted prefixes (the model
\* keeps the prefix of a signature)
verifyTransaction(txId, signature, sender) ==
  IF txId = "" \/ signature = "" \/ sender = "" THEN FALSE
  ELSE signature \in {"hmac_v11_", "signed_v11_"}

\* CryptoManager::zkStarkVerify_v11: the proof starts with "zk_proof_v11_"
zkStarkVerify_v11(zkProof) == zkProof = "zk_proof_v11_"

\* CryptoManager::validateMultiSignature: at least REQUIRED_SIGNATURES
\* signatures, and std::all_of them non-empty and of length >= 4
validateMultiSignature(signatures) ==
  IF Len(signatures) < RequiredSignatures THEN FALSE
  ELSE \A i \in 1..Len(signatures) :
         signatures[i] # <<>> /\ Len(signatures[i]) >= 4

\* mutant: the expiry time is not looked at
verify_NoExpiry(tx) ==
  /\ verifyTransaction(tx.txId, tx.signature, tx.sender)
  /\ zkStarkVerify_v11(tx.zkProof)
  /\ validateMultiSignature(tx.multiSignatures)

\* Transaction::verify, lines 157-179
verify(tx) ==
  /\ ~(now > tx.expiresAt)
  /\ verifyTransaction(tx.txId, tx.signature, tx.sender)
  /\ zkStarkVerify_v11(tx.zkProof)
  /\ validateMultiSignature(tx.multiSignatures)

\* prevHash.find("genesis_") == 0
IsGenesisPrev(prevHash) == Len(prevHash) > 0 /\ prevHash[1] = "genesis_"

\* mutant: validation asks for one more zero than mining does
MeetsTarget_OneMore(hash, difficulty) ==
  LET n == IF difficulty + 1 < Len(hash) THEN difficulty + 1 ELSE Len(hash)
  IN SubSeq(hash, 1, n) = [i \in 1..(difficulty + 1) |-> "0"]

\* hash.substr(0, difficulty) == std::string(difficulty, '0')
MeetsTarget(hash, difficulty) ==
  LET n == IF difficulty < Len(hash) THEN difficulty ELSE Len(hash)
  IN SubSeq(hash, 1, n) = [i \in 1..difficulty |-> "0"]

\* mutant: the orphan flag is not looked at
validate_IgnoresOrphan(block) ==
  IF IsGenesisPrev(block.prevHash) THEN TRUE
  ELSE IF ~MeetsTarget(block.hash, block.difficulty) THEN FALSE
  ELSE ~\E i \in 1..Len(block.transactions) : ~verify(block.transactions[i])

\* Block::validate, lines 277-297
validate(block) ==
  IF IsGenesisPrev(block.prevHash) THEN ~block.isOrphaned
  ELSE IF ~MeetsTarget(block.hash, block.difficulty) THEN FALSE
  ELSE IF \E i \in 1..Len(block.transactions) : ~verify(block.transactions[i])
  THEN FALSE
  ELSE ~block.isOrphaned

\* a co-signature of generateKeyPair, and one that is too short
CoSignature == <<"m", "s", "i", "g">>
ShortCoSignature == <<"m", "s">>

\* a transaction created at time 0 by the Transaction constructor
GoodTx ==
  [txId |-> "tx1", sender |-> "alice", expiresAt |-> TransactionValidity,
   signature |-> "hmac_v11_", zkProof |-> "zk_proof_v11_",
   multiSignatures |-> [i \in 1..RequiredSignatures |-> CoSignature]]

\* the same with a signature that verifyTransaction refuses
ForgedTx == [GoodTx EXCEPT !.signature = "forged_"]
\* with a proof that zkStarkVerify_v11 refuses
UnprovenTx == [GoodTx EXCEPT !.zkProof = "zk_"]
\* with one co-signature less than required
UnderSignedTx ==
  [GoodTx EXCEPT !.multiSignatures =
                   [i \in 1..(RequiredSignatures - 1) |-> CoSignature]]
\* with one more than required, the last of them too short
ShortSignedTx ==
  [GoodTx EXCEPT !.multiSignatures =
                   [i \in 1..(RequiredSignatures + 1) |->
                      IF i > RequiredSignatures THEN ShortCoSignature
                      ELSE CoSignature]]
\* with an accepted signature and no sender
AnonymousTx == [GoodTx EXCEPT !.sender = ""]

MinedBlock ==
  [prevHash |-> <<"h">>, hash |-> <<"0", "0", "a">>, difficulty |-> 2,
   reward |-> 50, transactions |-> <<GoodTx>>, isOrphaned |-> FALSE,
   shardId |-> 0]

\* the blocks handed to addBlock
Blocks ==
  { MinedBlock,
    [MinedBlock EXCEPT !.reward = 2000000, !.transactions = <<>>],
    [MinedBlock EXCEPT !.hash = <<"0", "a", "0">>],
    [MinedBlock EXCEPT !.transactions = <<ForgedTx>>],
    [MinedBlock EXCEPT !.isOrphaned = TRUE],
    [MinedBlock EXCEPT !.prevHash = <<"genesis_", "x">>, !.difficulty = 4,
                       !.shardId = 1],
    [MinedBlock EXCEPT !.prevHash = <<"genesis_", "x">>, !.difficulty = 4,
                       !.isOrphaned = TRUE],
    [MinedBlock EXCEPT !.transactions = <<GoodTx, UnprovenTx>>],
    [MinedBlock EXCEPT !.transactions = <<UnderSignedTx>>],
    [MinedBlock EXCEPT !.transactions = <<ShortSignedTx>>],
    [MinedBlock EXCEPT !.transactions = <<AnonymousTx>>] }

\* a block whose difficulty field is negative
ThrowingBlock == [MinedBlock EXCEPT !.difficulty = -1]

(***************************************************************************)
(* Blockchain::addBlock, step by step                                      *)
(***************************************************************************)
\* the number of blocks the model lets addBlock append
MaxBlocks == 2

AddBlockInvoke(t) ==
  /\ lpc[t] = "idle"
  /\ lpc' = [lpc EXCEPT ![t] = "ab_wait"]
  /\ lres' = [lres EXCEPT ![t] = "none"]
  /\ loutcome' = [loutcome EXCEPT ![t] = "none"]
  /\ loverlap' = IF OtherInAddBlock(t) THEN [u \in Threads |-> TRUE]
                 ELSE [loverlap EXCEPT ![t] = FALSE]
  /\ UNCHANGED <<chain, balances, hiddenBalances, totalMinedCoins,
                 isAddingBlock, isTransferring, chainWriter, chainReaders,
                 lop, lsnap>>

\* line 368, for a caller that passes one of `blocks`
AddBlockLockWith(t, blocks) ==
  /\ lpc[t] = "ab_wait"
  /\ CanLockExclusive
  /\ Len(chain) < ActiveShards + MaxBlocks
  /\ \E block \in blocks :
       lop' = [lop EXCEPT ![t] = [name |-> "addBlock", block |-> block,
                                  chainBefore |-> chain,
                                  minedBefore |-> totalMinedCoins]]
  /\ chainWriter' = t
  /\ lsnap' = <<balances, hiddenBalances>>
  /\ lpc' = [lpc EXCEPT ![t] = "ab_guard"]
  /\ UNCHANGED <<chain, balances, hiddenBalances, totalMinedCoins,
                 isAddingBlock, isTransferring, chainReaders, lres,
                 loutcome, loverlap>>

AddBlockLock(t) == AddBlockLockWith(t, Blocks)

\* line 369 and lines 33-42
AddBlockGuard(t) ==
  /\ lpc[t] = "ab_guard"
  /\ IF isAddingBlock
     THEN /\ lpc' = [lpc EXCEPT ![t] = "idle"]
          /\ loutcome' = [loutcome EXCEPT ![t] = "ab_fault"]
          /\ lop' = [lop EXCEPT ![t] = IdleOp]
          /\ chainWriter' = IF chainWriter = t THEN NoThread ELSE chainWriter
          /\ UNCHANGED isAddingBlock
     ELSE /\ isAddingBlock' = TRUE
          /\ lpc' = [lpc EXCEPT ![t] = "ab_validate"]
          /\ UNCHANGED <<loutcome, lop, chainWriter>>
  /\ UNCHANGED <<chain, balances, hiddenBalances, totalMinedCoins,
                 isTransferring, chainReaders, lres, loverlap, lsnap>>

\* line 284 of Block::validate: std::string target(difficulty, '0') converts
\* a negative difficulty to a size_t above max_size() and throws
\* std::length_error; validate catches nothing
ValidateThrows(block) ==
  ~IsGenesisPrev(block.prevHash) /\ block.difficulty < 0

\* lines 371-378: validation, and the append when it passes
AddBlockValidate(t) ==
  /\ lpc[t] = "ab_validate"
  /\ ~ValidateThrows(lop[t].block)
  /\ IF ~validate(lop[t].block)
     THEN /\ lres' = [lres EXCEPT ![t] = FALSE]
          /\ lpc' = [lpc EXCEPT ![t] = "ab_exit"]
          /\ UNCHANGED chain
     ELSE /\ chain' = Append(chain, lop[t].block)
          /\ lpc' = [lpc EXCEPT ![t] = "ab_count"]
          /\ UNCHANGED lres
  /\ UNCHANGED <<balances, hiddenBalances, totalMinedCoins, isAddingBlock,
                 isTransferring, chainWriter, chainReaders, lop, loutcome,
                 loverlap, lsnap>>

\* line 371: block.validate throws; addBlock has no handler, so the guard
\* and then the lock are destroyed and the exception reaches the caller
AddBlockThrow(t) ==
  /\ lpc[t] = "ab_validate"
  /\ ValidateThrows(lop[t].block)
  /\ isAddingBlock' = GuardUnwound(isAddingBlock)
  /\ chainWriter' = IF chainWriter = t THEN NoThread ELSE chainWriter
  /\ lpc' = [lpc EXCEPT ![t] = "idle"]
  /\ lop' = [lop EXCEPT ![t] = IdleOp]
  /\ lres' = [lres EXCEPT ![t] = "none"]
  /\ loutcome' = [loutcome EXCEPT ![t] = "ab_thrown"]
  /\ UNCHANGED <<chain, balances, hiddenBalances, totalMinedCoins,
                 isTransferring, chainReaders, loverlap, lsnap>>

\* mutant: the counter saturates at the cap
CountMined_Capped(mined, reward) ==
  IF mined + reward > MaxMinableCoins THEN MaxMinableCoins ELSE mined + reward

\* line 379: the value of the counter after
\* totalMinedCoins.fetch_add(static_cast<int64_t>(block.reward * 100000000))
CountMined(mined, reward) == mined + reward

\* lines 379-384
AddBlockCount(t) ==
  /\ lpc[t] = "ab_count"
  /\ totalMinedCoins' = CountMined(totalMinedCoins, lop[t].block.reward)
  /\ lres' = [lres EXCEPT ![t] = TRUE]
  /\ lpc' = [lpc EXCEPT ![t] = "ab_exit"]
  /\ UNCHANGED <<chain, balances, hiddenBalances, isAddingBlock,
                 isTransferring, chainWriter, chainReaders, lop, loutcome,
                 loverlap, lsnap>>

\* the return: ~ReentrancyGuard clears the flag, then the lock is released
AddBlockReturn(t) ==
  /\ lpc[t] = "ab_exit"
  /\ isAddingBlock' = FALSE
  /\ chainWriter' = IF chainWriter = t THEN NoThread ELSE chainWriter
  /\ lpc' = [lpc EXCEPT ![t] = "idle"]
  /\ lop' = [lop EXCEPT ![t] = IdleOp]
  /\ lres' = [lres EXCEPT ![t] = "none"]
  /\ loutcome' = [loutcome EXCEPT ![t] = "ab_done"]
  /\ UNCHANGED <<chain, balances, hiddenBalances, totalMinedCoins,
                 isTransferring, chainReaders, loverlap, lsnap>>

\* lines 425-428: getTotalMinedCoins clamps what it reports
getTotalMinedCoins ==
  IF totalMinedCoins < MaxMinableCoins THEN totalMinedCoins
  ELSE MaxMinableCoins

\* Blockchain::validateChain, lines 387-405: every block after the first
validateChain == \A i \in 2..Len(chain) : validate(chain[i])

\* Blockchain::checkMiningLimit, lines 530-538
checkMiningLimit == ~(getTotalMinedCoins >= MaxMinableCoins)

\* the clock advances by half the validity of a transaction
MaxTicks == 3
Tick ==
  /\ now < MaxTicks * (TransactionValidity \div 2)
  /\ now' = now + (TransactionValidity \div 2)
  /\ UNCHANGED <<ledgerVars, miningVars, utxoVars, memVars, pureVars,
                 diffVars,
                 blockMineVars,
                 shardVars,
                 txVars,
                 upgradeVars,
                 sessionVars,
                 lockVars,
                 amountVars>>

(***************************************************************************)
(* MiningManager::addMinedCoins, step by step                              *)
(***************************************************************************)
MinedAmounts == {0, 500000, 2000000}

MiningInit ==
  /\ totalMinedCoins_ = 0
  /\ miningMutex_ = NoThread
  /\ mpc = [t \in Threads |-> "idle"]
  /\ mamount = [t \in Threads |-> 0]
  /\ mcurrent = [t \in Threads |-> 0]

\* mutant: addMinedCoins runs without the lock_guard
MiningMutexFree_Unlocked == TRUE

\* std::lock_guard<std::mutex> lock(miningMutex_) can be taken
MiningMutexFree == miningMutex_ = NoThread

\* the caller enters addMinedCoins and blocks on the lock_guard
AddMinedCoinsInvoke(t) ==
  /\ mpc[t] = "idle"
  /\ mpc' = [mpc EXCEPT ![t] = "am_wait"]
  /\ UNCHANGED <<totalMinedCoins_, miningMutex_, mamount, mcurrent>>

\* line 87
AddMinedCoinsLock(t) ==
  /\ mpc[t] = "am_wait"
  /\ MiningMutexFree
  /\ miningMutex_' = t
  /\ \E amount \in MinedAmounts : mamount' = [mamount EXCEPT ![t] = amount]
  /\ mpc' = [mpc EXCEPT ![t] = "am_load"]
  /\ UNCHANGED <<totalMinedCoins_, mcurrent>>

\* line 90: current = totalMinedCoins_.load()
AddMinedCoinsLoad(t) ==
  /\ mpc[t] = "am_load"
  /\ mcurrent' = [mcurrent EXCEPT ![t] = totalMinedCoins_]
  /\ mpc' = [mpc EXCEPT ![t] = "am_update"]
  /\ UNCHANGED <<totalMinedCoins_, miningMutex_, mamount>>

\* line 94: current + amountSatoshis > maxSatoshis
PassesCap(current, amount) == current + amount > MaxMinableCoins

\* lines 94-100: store(max) or fetch_add(amount)
AddMinedCoinsUpdate(t) ==
  /\ mpc[t] = "am_update"
  /\ totalMinedCoins_' = IF PassesCap(mcurrent[t], mamount[t])
                         THEN MaxMinableCoins
                         ELSE totalMinedCoins_ + mamount[t]
  /\ mpc' = [mpc EXCEPT ![t] = "am_exit"]
  /\ UNCHANGED <<miningMutex_, mamount, mcurrent>>

\* line 101: the lock_guard is released
AddMinedCoinsReturn(t) ==
  /\ mpc[t] = "am_exit"
  /\ miningMutex_' = IF miningMutex_ = t THEN NoThread ELSE miningMutex_
  /\ mpc' = [mpc EXCEPT ![t] = "idle"]
  /\ UNCHANGED <<totalMinedCoins_, mamount, mcurrent>>

(***************************************************************************)
(* UTXOSet                                                                 *)
(***************************************************************************)
GenesisTxid == "genesis_coinbase"
GenesisAddress == "Shankar-Lal-Khati"

Txids == {GenesisTxid, "tx1"}
Vouts == {0}
UAddresses == {GenesisAddress, "alice"}
UAmounts == {5, 7}

\* key = txid + ":" + std::to_string(vout).  The decimal rendering of an int
\* holds no ':', so the last ':' of a key separates its two parts and the
\* key determines the pair: the model keeps the pair.
UKey(txid, vout) == <<txid, vout>>
UKeys == {UKey(x, v) : x \in Txids, v \in Vouts}

\* a value-initialised UTXOutput, as std::map::operator[] inserts it
DefaultUTXO == [address |-> "", amount |-> 0]

\* utxos_[key] = utxo
PutUTXO(m, key, utxo) ==
  IF key \in DOMAIN m THEN [m EXCEPT ![key] = utxo] ELSE m @@ (key :> utxo)

\* addressUtxos_[address].insert(key)
IndexInsert(idx, address, key) ==
  IF address \in DOMAIN idx THEN [idx EXCEPT ![address] = @ \cup {key}]
  ELSE idx @@ (address :> {key})

\* addressUtxos_[address].erase(key)
IndexErase(idx, address, key) ==
  IF address \in DOMAIN idx THEN [idx EXCEPT ![address] = @ \ {key}]
  ELSE idx @@ (address :> {})

\* lines 163-177: the constructor adds the genesis output
UTXOInit ==
  /\ utxos_ = (UKey(GenesisTxid, 0) :>
                 [address |-> GenesisAddress, amount |-> PreminedCoins])
  /\ addressUtxos_ = (GenesisAddress :> {UKey(GenesisTxid, 0)})
  /\ mutex_ = NoThread
  /\ upc = [t \in Threads |-> "idle"]
  /\ uop = [t \in Threads |-> IdleOp]
  /\ ures = [t \in Threads |-> "none"]
  /\ uhist = [k \in UKeys |-> 0]

\* mutant: the UTXOSet operations run without the lock_guard
UTXOMutexFree_Unlocked == TRUE

\* std::lock_guard<std::mutex> lock(mutex_) can be taken
UTXOMutexFree == mutex_ = NoThread

RECURSIVE AmountSum(_, _)
\* the sum of the amounts that m holds under the keys ks
AmountSum(m, ks) ==
  IF ks = {} THEN 0
  ELSE LET k == CHOOSE x \in ks : TRUE
       IN m[k].amount + AmountSum(m, ks \ {k})

\* lines 94-103: getUTXO
getUTXO(key) == IF key \in DOMAIN utxos_ THEN Some(utxos_[key]) ELSE Absent

\* lines 106-119: the keys of the outputs getAddressUTXOs returns
getAddressUTXOs(address) ==
  IF address \in DOMAIN addressUtxos_
  THEN {k \in addressUtxos_[address] : k \in DOMAIN utxos_}
  ELSE {}

\* lines 122-129: getBalance
UTXOBalance(address) == AmountSum(utxos_, getAddressUTXOs(address))

\* a caller enters a UTXOSet operation
UTXOInvoke(t) ==
  /\ upc[t] = "idle"
  /\ upc' = [upc EXCEPT ![t] = "wait"]
  /\ ures' = [ures EXCEPT ![t] = "none"]
  /\ UNCHANGED <<utxos_, addressUtxos_, mutex_, uop, uhist>>

\* ---- addUTXO, lines 70-75
AddUTXOLock(t) ==
  /\ upc[t] = "wait"
  /\ UTXOMutexFree
  /\ mutex_' = t
  /\ \E key \in UKeys, address \in UAddresses, amount \in UAmounts :
       /\ uop' = [uop EXCEPT ![t] =
                    [name |-> "addUTXO", key |-> key, address |-> address,
                     amount |-> amount,
                     balanceBefore |-> UTXOBalance(address)]]
       /\ uhist' = [uhist EXCEPT ![key] = 0]
  /\ upc' = [upc EXCEPT ![t] = "au_primary"]
  /\ UNCHANGED <<utxos_, addressUtxos_, ures>>

\* line 73
AddUTXOPrimary(t) ==
  /\ upc[t] = "au_primary"
  /\ utxos_' = PutUTXO(utxos_, uop[t].key,
                       [address |-> uop[t].address, amount |-> uop[t].amount])
  /\ upc' = [upc EXCEPT ![t] = "au_index"]
  /\ UNCHANGED <<addressUtxos_, mutex_, uop, ures, uhist>>

\* line 74
AddUTXOIndex(t) ==
  /\ upc[t] = "au_index"
  /\ addressUtxos_' = IndexInsert(addressUtxos_, uop[t].address, uop[t].key)
  /\ upc' = [upc EXCEPT ![t] = "au_exit"]
  /\ UNCHANGED <<utxos_, mutex_, uop, ures, uhist>>

\* ---- spendUTXO, lines 78-91
SpendUTXOLock(t) ==
  /\ upc[t] = "wait"
  /\ UTXOMutexFree
  /\ mutex_' = t
  /\ \E key \in UKeys :
       uop' = [uop EXCEPT ![t] =
                 [name |-> "spendUTXO", key |-> key,
                  address |-> IF key \in DOMAIN utxos_
                              THEN utxos_[key].address ELSE "",
                  amount |-> IF key \in DOMAIN utxos_
                             THEN utxos_[key].amount ELSE 0,
                  balanceBefore |-> IF key \in DOMAIN utxos_
                                    THEN UTXOBalance(utxos_[key].address)
                                    ELSE 0,
                  before |-> <<utxos_, addressUtxos_>>]]
  /\ upc' = [upc EXCEPT ![t] = "sp_check"]
  /\ UNCHANGED <<utxos_, addressUtxos_, ures, uhist>>

\* mutant: spendUTXO does not look the key up first
SpendFound_Always(key) == TRUE

\* line 82: utxos_.count(key)
SpendFound(key) == key \in DOMAIN utxos_

\* lines 82-84
SpendUTXOCheck(t) ==
  /\ upc[t] = "sp_check"
  /\ IF SpendFound(uop[t].key)
     THEN /\ upc' = [upc EXCEPT ![t] = "sp_index"]
          /\ UNCHANGED ures
     ELSE /\ upc' = [upc EXCEPT ![t] = "sp_exit"]
          /\ ures' = [ures EXCEPT ![t] = FALSE]
  /\ UNCHANGED <<utxos_, addressUtxos_, mutex_, uop, uhist>>

\* lines 86-87: utxos_[key] inserts a default output when the key is missing
SpendUTXOIndex(t) ==
  /\ upc[t] = "sp_index"
  /\ LET key == uop[t].key
         withKey == IF key \in DOMAIN utxos_ THEN utxos_
                    ELSE utxos_ @@ (key :> DefaultUTXO)
     IN /\ utxos_' = withKey
        /\ addressUtxos_' = IndexErase(addressUtxos_, withKey[key].address, key)
  /\ upc' = [upc EXCEPT ![t] = "sp_primary"]
  /\ UNCHANGED <<mutex_, uop, ures, uhist>>

\* lines 88-90
SpendUTXOPrimary(t) ==
  /\ upc[t] = "sp_primary"
  /\ utxos_' = MapErase(utxos_, uop[t].key)
  /\ ures' = [ures EXCEPT ![t] = TRUE]
  /\ upc' = [upc EXCEPT ![t] = "sp_exit"]
  /\ UNCHANGED <<addressUtxos_, mutex_, uop, uhist>>

\* ---- the readers: each takes the lock, reads and returns
GetUTXORead(t) ==
  /\ upc[t] = "wait"
  /\ UTXOMutexFree
  /\ mutex_' = t
  /\ \E key \in UKeys :
       /\ uop' = [uop EXCEPT ![t] = [name |-> "getUTXO", key |-> key,
                    seen |-> IF key \in DOMAIN utxos_ THEN {key} ELSE {}]]
       /\ ures' = [ures EXCEPT ![t] = getUTXO(key)]
  /\ upc' = [upc EXCEPT ![t] = "rd_exit"]
  /\ UNCHANGED <<utxos_, addressUtxos_, uhist>>

GetAddressUTXOsRead(t) ==
  /\ upc[t] = "wait"
  /\ UTXOMutexFree
  /\ mutex_' = t
  /\ \E address \in UAddresses :
       /\ uop' = [uop EXCEPT ![t] = [name |-> "getAddressUTXOs",
                    address |-> address, seen |-> getAddressUTXOs(address)]]
       /\ ures' = [ures EXCEPT ![t] =
                     {utxos_[k] : k \in getAddressUTXOs(address)}]
  /\ upc' = [upc EXCEPT ![t] = "rd_exit"]
  /\ UNCHANGED <<utxos_, addressUtxos_, uhist>>

\* getBalance reads through getAddressUTXOs (line 123) and sums its copy
UTXOGetBalanceRead(t) ==
  /\ upc[t] = "wait"
  /\ UTXOMutexFree
  /\ mutex_' = t
  /\ \E address \in UAddresses :
       /\ uop' = [uop EXCEPT ![t] = [name |-> "getBalance",
                    address |-> address, seen |-> getAddressUTXOs(address)]]
       /\ ures' = [ures EXCEPT ![t] = UTXOBalance(address)]
  /\ upc' = [upc EXCEPT ![t] = "rd_exit"]
  /\ UNCHANGED <<utxos_, addressUtxos_, uhist>>

\* ---- validateInputs, lines 132-150; each getUTXO takes the lock by itself
MaxInputs == 2
MaxOutputs == 2

RECURSIVE SeqsUpTo(_, _)
\* the sequences over S of length at most n
SeqsUpTo(S, n) ==
  IF n = 0 THEN {<<>>}
  ELSE LET shorter == SeqsUpTo(S, n - 1)
       IN shorter \cup {Append(q, x) : q \in shorter, x \in S}

ValidateInputsInvoke(t) ==
  /\ upc[t] = "wait"
  /\ \E vin \in SeqsUpTo(UKeys, MaxInputs),
        vout \in SeqsUpTo(UAmounts, MaxOutputs) :
       uop' = [uop EXCEPT ![t] =
                 [name |-> "validateInputs", vin |-> vin, vout |-> vout,
                  i |-> 1, inputSum |-> 0,
                  before |-> <<utxos_, addressUtxos_>>]]
  /\ upc' = [upc EXCEPT ![t] = "vi_loop"]
  /\ UNCHANGED <<utxos_, addressUtxos_, mutex_, ures, uhist>>

\* mutant: inputs must exceed the outputs
InputsCover_Strict(inputSum, outputSum) == inputSum > outputSum

\* line 149
InputsCover(inputSum, outputSum) == inputSum >= outputSum

\* lines 135-141: one turn of the loop over tx.vin
ValidateInputsInput(t) ==
  /\ upc[t] = "vi_loop"
  /\ uop[t].i <= Len(uop[t].vin)
  /\ UTXOMutexFree
  /\ LET utxo == getUTXO(uop[t].vin[uop[t].i]) IN
     IF utxo = Absent
     THEN /\ ures' = [ures EXCEPT ![t] = FALSE]
          /\ upc' = [upc EXCEPT ![t] = "vi_exit"]
          /\ UNCHANGED uop
     ELSE /\ uop' = [uop EXCEPT ![t].i = @ + 1,
                                ![t].inputSum =
                                   @ + (CHOOSE u \in utxo : TRUE).amount]
          /\ UNCHANGED <<ures, upc>>
  /\ UNCHANGED <<utxos_, addressUtxos_, mutex_, uhist>>

\* lines 143-149: the outputs are summed and compared
ValidateInputsCompare(t) ==
  /\ upc[t] = "vi_loop"
  /\ uop[t].i > Len(uop[t].vin)
  /\ ures' = [ures EXCEPT ![t] =
                InputsCover(uop[t].inputSum, SeqSum(uop[t].vout))]
  /\ upc' = [upc EXCEPT ![t] = "vi_exit"]
  /\ UNCHANGED <<utxos_, addressUtxos_, mutex_, uop, uhist>>

\* the lock_guard is released and the call returns
UTXOReturn(t) ==
  /\ upc[t] \in {"au_exit", "sp_exit", "rd_exit", "vi_exit"}
  /\ mutex_' = IF mutex_ = t THEN NoThread ELSE mutex_
  /\ uhist' = IF upc[t] = "sp_exit" /\ ures[t] = TRUE
              THEN [uhist EXCEPT ![uop[t].key] = @ + 1]
              ELSE uhist
  /\ upc' = [upc EXCEPT ![t] = "idle"]
  /\ uop' = [uop EXCEPT ![t] = IdleOp]
  /\ ures' = [ures EXCEPT ![t] = "none"]
  /\ UNCHANGED <<utxos_, addressUtxos_>>

(***************************************************************************)
(* TransactionMempool.  Every public method holds one lock_guard on the    *)
(* pool's mutex from its first to its last statement, so a call is one     *)
(* step.                                                                   *)
(***************************************************************************)
\* the constructor's maxSize (300 MB by default), in bytes
maxSize_ == 4

\* the number of admissions the model follows
MaxAdmissions == 3

MempoolTx(txid, size, fee, vsize, weight) ==
  [txid |-> txid, size |-> size, fee |-> fee, vsize |-> vsize,
   weight |-> weight]

\* the transactions handed to addTransaction: two with the same txid, two
\* with the same fee rate, one larger than the whole pool
MempoolTxs ==
  { MempoolTx("a", 2, 2, 1, 2), MempoolTx("a", 1, 1, 1, 1),
    MempoolTx("b", 1, 4, 2, 2), MempoolTx("c", 1, 1, 1, 1),
    MempoolTx("d", 5, 12, 4, 3) }

MempoolTxids == {tx.txid : tx \in MempoolTxs}
MaxWeights == {0, 1, 3, 4}

\* line 51: entry.feeRate = tx.fee / tx.vsize (exact for every MempoolTxs)
FeeRate(tx) == tx.fee \div tx.vsize

\* lines 48-55
MempoolEntry(tx) == [tx |-> tx, entryTime |-> now, feeRate |-> FeeRate(tx)]

MempoolInit ==
  /\ transactions_ = <<>>
  /\ currentSize_ = 0
  /\ feeIndex_ = <<>>
  /\ madmitted = <<>>
  /\ mlast = [op |-> "none"]

\* the orders in which a vector of the pool's txids can be arranged
Orders(pool) ==
  {o \in [1..Cardinality(DOMAIN pool) -> DOMAIN pool] :
     \A i, j \in DOMAIN o : i # j => o[i] # o[j]}

\* what std::sort can leave behind with the comparator a.second < b.second:
\* no later element compares less than an earlier one (the order of
\* elements of equal fee rate is unspecified)
AscendingOrders(pool) ==
  {o \in Orders(pool) :
     \A i, j \in DOMAIN o :
       i < j => ~(pool[o[j]].feeRate < pool[o[i]].feeRate)}

\* the same for the comparator a.feeRate > b.feeRate
DescendingOrders(pool) ==
  {o \in Orders(pool) :
     \A i, j \in DOMAIN o :
       i < j => ~(pool[o[j]].feeRate > pool[o[i]].feeRate)}

\* lines 186-192: the loop of evictLowFeeTxs from position i on
RECURSIVE EvictFrom(_, _, _, _, _)
EvictFrom(pool, order, i, freed, needed) ==
  IF i > Len(order) \/ freed >= needed THEN pool
  ELSE EvictFrom(MapErase(pool, order[i]), order, i + 1,
                 freed + pool[order[i]].tx.size, needed)

\* lines 177-193: evictLowFeeTxs(needed), for one outcome of its sort;
\* currentSize_ is not written
evictLowFeeTxs(pool, order, needed) == EvictFrom(pool, order, 1, 0, needed)

\* mutant: nothing is ever taken for a duplicate
AlreadyInMempool_Never(txid) == FALSE

\* line 39: transactions_.count(tx.txid)
AlreadyInMempool(txid) == txid \in DOMAIN transactions_

\* line 44: currentSize_ + tx.size > maxSize_
NeedsEviction(tx) == currentSize_ + tx.size > maxSize_

\* the members a call can change
PoolState == <<transactions_, currentSize_, feeIndex_>>

\* lines 36-67
addTransaction(tx) ==
  IF AlreadyInMempool(tx.txid)
  THEN /\ mlast' = [op |-> "addTransaction", tx |-> tx, result |-> FALSE,
                    before |-> PoolState]
       /\ UNCHANGED <<transactions_, currentSize_, feeIndex_, madmitted>>
  ELSE /\ Len(madmitted) < MaxAdmissions
       /\ \E order \in AscendingOrders(transactions_) :
            LET pool == IF NeedsEviction(tx)
                        THEN evictLowFeeTxs(transactions_, order, tx.size)
                        ELSE transactions_
            IN transactions_' =
                 [x \in DOMAIN pool \cup {tx.txid} |->
                    IF x = tx.txid THEN MempoolEntry(tx) ELSE pool[x]]
       /\ currentSize_' = currentSize_ + tx.size
       /\ feeIndex_' = MapAdd(feeIndex_, <<tx.txid, FeeRate(tx)>>, 1)
       /\ madmitted' = Append(madmitted, tx.txid)
       /\ mlast' = [op |-> "addTransaction", tx |-> tx, result |-> TRUE,
                    before |-> PoolState]

\* lines 70-81
removeTransaction(txid) ==
  /\ IF txid \notin DOMAIN transactions_
     THEN /\ mlast' = [op |-> "removeTransaction", txid |-> txid,
                       result |-> FALSE, before |-> PoolState]
          /\ UNCHANGED <<transactions_, currentSize_>>
     ELSE /\ currentSize_' = currentSize_ - transactions_[txid].tx.size
          /\ transactions_' = MapErase(transactions_, txid)
          /\ mlast' = [op |-> "removeTransaction", txid |-> txid,
                       result |-> TRUE, before |-> PoolState]
  /\ UNCHANGED <<feeIndex_, madmitted>>

\* mutant: every sorted entry is packed
FitsWeight_Always(currentWeight, weight, maxWeight) == TRUE

\* line 102: currentWeight + entry.tx.weight <= maxWeight
FitsWeight(currentWeight, weight, maxWeight) ==
  currentWeight + weight <= maxWeight

\* lines 101-106: the packing loop from position i on
RECURSIVE PackFrom(_, _, _, _, _)
PackFrom(pool, order, i, currentWeight, maxWeight) ==
  IF i > Len(order) THEN <<>>
  ELSE LET entry == pool[order[i]] IN
       IF FitsWeight(currentWeight, entry.tx.weight, maxWeight)
       THEN <<entry.tx>> \o PackFrom(pool, order, i + 1,
                                     currentWeight + entry.tx.weight,
                                     maxWeight)
       ELSE PackFrom(pool, order, i + 1, currentWeight, maxWeight)

\* lines 84-109
getBlockTemplate(maxWeight) ==
  /\ \E order \in DescendingOrders(transactions_) :
       mlast' = [op |-> "getBlockTemplate", maxWeight |-> maxWeight,
                 result |-> PackFrom(transactions_, order, 1, 0, maxWeight),
                 before |-> PoolState]
  /\ UNCHANGED <<transactions_, currentSize_, feeIndex_, madmitted>>

\* lines 134-137
getBytes ==
  /\ mlast' = [op |-> "getBytes", result |-> currentSize_,
               before |-> PoolState]
  /\ UNCHANGED <<transactions_, currentSize_, feeIndex_, madmitted>>

(***************************************************************************)
(* Blockchain::adjustCoinPrice.  The model's doubles are the integers      *)
(* 0..DblMax and one value Inf; a product that leaves the range is Inf, as *)
(* a double product that leaves the finite range is.  Factors are counted  *)
(* in thousandths.  std::pow and std::sin are tabulated for the block      *)
(* heights the model tries.                                                *)
(***************************************************************************)
\* std::numeric_limits<double>::max() of the model's doubles
DblMax == 4000000
Inf == DblMax + 1

MINIMUM_PRICE == 600000
GrowthPeriod == 1000000

\* std::isinf
isinf(x) == x = Inf

\* x * (num / 1000), rounded down
FScale(x, num) ==
  IF isinf(x) THEN Inf
  ELSE LET q == (x \div 1000) * num + ((x % 1000) * num) \div 1000
       IN IF q > DblMax THEN Inf ELSE q

\* std::pow(1.0005, n) in thousandths, rounded down
PowGrowth ==
  (0 :> 1000) @@ (2 :> 1001) @@ (157 :> 1081) @@ (471 :> 1265)
  @@ (1387 :> 2000) @@ (4606 :> 9998)

\* exponents whose power (about 10^217 for 999999) takes every price of the
\* model's range except 0 out of the range
HugeExponents == {999999}

\* 1.0 + std::sin(h * 0.01) * 0.001 in thousandths, rounded to the nearest
SinOracle ==
  (0 :> 1000) @@ (2 :> 1000) @@ (157 :> 1001) @@ (471 :> 999)
  @@ (1387 :> 1001) @@ (4606 :> 1001) @@ (999999 :> 1000)
  @@ (1000000 :> 1000) @@ (1000157 :> 999)

PriceHeights == DOMAIN SinOracle
Prices ==
  {0, 1, 599999, 600000, 1000000, DblMax \div 3, DblMax \div 2, DblMax}
ShardIds == {0, ActiveShards - 1}

\* lines 503-504: currentPrice * std::pow(growthFactor, blockHeight % 1000000)
GrowPrice(currentPrice, blockHeight) ==
  LET n == blockHeight % GrowthPeriod IN
  IF n \in HugeExponents THEN (IF currentPrice = 0 THEN 0 ELSE Inf)
  ELSE FScale(currentPrice, PowGrowth[n])

\* lines 507-510
OracleAdjustment(blockHeight) ==
  IF SinOracle[blockHeight] < 1000 THEN 1000 ELSE SinOracle[blockHeight]

\* lines 514-517
ClampOverflow(newPrice) ==
  IF isinf(newPrice) \/ newPrice > DblMax \div 2 THEN DblMax \div 2
  ELSE newPrice

\* mutant: no floor
FloorAtMinimum_None(newPrice) == newPrice

\* lines 520-521: std::max(newPrice, MINIMUM_PRICE)
FloorAtMinimum(newPrice) ==
  IF newPrice < MINIMUM_PRICE THEN MINIMUM_PRICE ELSE newPrice

\* lines 499-528; the log line (523-526) does not change the value returned
adjustCoinPrice(currentPrice, blockHeight, shardId) ==
  FloorAtMinimum(
    ClampOverflow(
      FScale(GrowPrice(currentPrice, blockHeight),
             OracleAdjustment(blockHeight))))

AdjustCoinPrice ==
  /\ \E currentPrice \in Prices, blockHeight \in PriceHeights,
        shardId \in ShardIds :
       lastPrice' = [called |-> TRUE, currentPrice |-> currentPrice,
                     blockHeight |-> blockHeight, shardId |-> shardId,
                     result |-> adjustCoinPrice(currentPrice, blockHeight,
                                                shardId)]
  /\ UNCHANGED <<ledgerReward, miningReward>>

(***************************************************************************)
(* calculateBlockReward of the Blockchain and of the MiningManager.  A     *)
(* reward is a fraction <<numerator, denominator>>: 50 / 2^k is exact in a *)
(* double for every k that std::pow(2, k) is finite for.                   *)
(***************************************************************************)
halvingInterval == 210000
initialReward == 50
HALVING_INTERVAL == 210000
INITIAL_REWARD == 50
\* 0.0005
LedgerMinReward == <<5, 10000>>
MIN_REWARD == <<5, 10000>>

\* the largest k the model computes 2^k for; beyond it the quotient is taken
\* as 0 (in a double it is a positive number below 10^-7, or 0)
Pow2Limit == 27

RECURSIVE Pow2(_)
Pow2(k) == IF k = 0 THEN 1 ELSE 2 * Pow2(k - 1)

DivByPow2(x, k) == IF k > Pow2Limit THEN <<0, 1>> ELSE <<x, Pow2(k)>>

FracLess(a, b) == a[1] * b[2] < b[1] * a[2]
FracEq(a, b) == a[1] * b[2] = b[1] * a[2]

\* std::max(a, b): b when a < b, else a
FracMax(a, b) == IF FracLess(a, b) THEN b ELSE a

\* blockchain_v7.h line 431
LedgerHalvings(blockHeight) == blockHeight \div halvingInterval

\* mutant: the halving count is rounded up
MiningHalvings_RoundUp(blockHeight) ==
  (blockHeight + HALVING_INTERVAL - 1) \div HALVING_INTERVAL

\* mining_v7.h line 147
MiningHalvings(blockHeight) == blockHeight \div HALVING_INTERVAL

\* Blockchain::calculateBlockReward, blockchain_v7.h lines 430-434
LedgerCalculateBlockReward(blockHeight) ==
  FracMax(DivByPow2(initialReward, LedgerHalvings(blockHeight)),
          LedgerMinReward)

\* MiningManager::calculateBlockReward, mining_v7.h lines 145-151
MiningCalculateBlockReward(blockHeight) ==
  FracMax(DivByPow2(INITIAL_REWARD, MiningHalvings(blockHeight)), MIN_REWARD)

RewardHeights ==
  {0, 1, 209999, 210000, 419999, 420000, 16 * 210000, 17 * 210000 - 1,
   17 * 210000, 28 * 210000, 2147483647}

LedgerReward ==
  /\ \E blockHeight \in RewardHeights :
       ledgerReward' = [called |-> TRUE, blockHeight |-> blockHeight,
                        result |-> LedgerCalculateBlockReward(blockHeight)]
  /\ UNCHANGED <<lastPrice, miningReward>>

MiningReward ==
  /\ \E blockHeight \in RewardHeights :
       miningReward' = [called |-> TRUE, blockHeight |-> blockHeight,
                        result |-> MiningCalculateBlockReward(blockHeight)]
  /\ UNCHANGED <<lastPrice, ledgerReward>>

PureInit ==
  /\ lastPrice = [called |-> FALSE]
  /\ ledgerReward = [called |-> FALSE]
  /\ miningReward = [called |-> FALSE]

(***************************************************************************)
(* MiningManager::adjustDifficulty, quantumpulse_mining_v7.h               *)
(***************************************************************************)
MAX_DIFFICULTY == 512
MIN_DIFFICULTY == 1
DEFAULT_DIFFICULTY == 4

\* the block times a caller passes (double): the ratios they form with the
\* positive target are 0, 0.4, 0.5, 0.7, 0.8, 1, 1.5, 1.6, 2 and 2.1
ActualBlockTimes == {0, 4, 5, 7, 8, 10, 15, 16, 20, 21}
TargetBlockTimes == {-1, 0, 10}

\* actualBlockTime / targetBlockTime < num / den, for a positive target
RatioBelow(actual, target, num, den) == actual * den < num * target
\* actualBlockTime / targetBlockTime > num / den, for a positive target
RatioAbove(actual, target, num, den) == actual * den > num * target

\* std::min(currentDifficulty_ + by, MiningConfig::MAX_DIFFICULTY)
RaiseDifficulty_Unclamped(difficulty, by) == difficulty + by
RaiseDifficulty(difficulty, by) ==
  IF difficulty + by < MAX_DIFFICULTY THEN difficulty + by ELSE MAX_DIFFICULTY
\* std::max(currentDifficulty_ - by, MiningConfig::MIN_DIFFICULTY)
LowerDifficulty(difficulty, by) ==
  IF difficulty - by > MIN_DIFFICULTY THEN difficulty - by ELSE MIN_DIFFICULTY

\* the difficulty adjustDifficulty leaves behind
AdjustedDifficulty(difficulty, actual, target) ==
  IF target <= 0 THEN difficulty
  ELSE IF RatioBelow(actual, target, 1, 2) THEN RaiseDifficulty(difficulty, 2)
  ELSE IF RatioBelow(actual, target, 4, 5) THEN RaiseDifficulty(difficulty, 1)
  ELSE IF RatioAbove(actual, target, 2, 1) THEN LowerDifficulty(difficulty, 2)
  ELSE IF RatioAbove(actual, target, 3, 2) THEN LowerDifficulty(difficulty, 1)
  ELSE difficulty

DifficultyInit ==
  /\ currentDifficulty_ = DEFAULT_DIFFICULTY
  /\ dlast = [called |-> FALSE]

\* adjustDifficulty(actualBlockTime, targetBlockTime), under miningMutex_
adjustDifficulty(actual, target) ==
  /\ currentDifficulty_' = AdjustedDifficulty(currentDifficulty_, actual, target)
  /\ dlast' = [called |-> TRUE, actualBlockTime |-> actual,
               targetBlockTime |-> target, before |-> currentDifficulty_]

(***************************************************************************)
(* MiningManager::mineBlock and Block::mine, one caller                    *)
(***************************************************************************)
\* MiningConfig::MAX_NONCE_ATTEMPTS is 10,000,000; the search is the same
\* loop with a budget that can be exhausted here
MAX_NONCE_ATTEMPTS == 4
HashLength == 64
Miner == "t1"

\* prevHash + merkleRoot + timestamp of the block that is mined
MineData == {"a", "b"}
MineDifficulties == {0, 1, 2, 4, 65}
MineRewards == {500000, 2000000}

\* std::hash<std::string> of data + nonce + shardId: the outcomes it has for
\* the data above; "b" has no nonce whose hash begins with a zero
StdHash(data, nonce, shardId) ==
  IF data = "a"
  THEN CASE nonce = 0 -> 193969
         [] nonce = 1 -> 16
         [] nonce = 2 -> 32
         [] nonce = 3 -> 524288
         [] OTHER -> 7
  ELSE 2 * nonce + 1

HexDigits == <<"0", "1", "2", "3", "4", "5", "6", "7",
               "8", "9", "a", "b", "c", "d", "e", "f">>

\* lines 166-169: character i is "0123456789abcdef"[(hash >> (i % 16)) & 0xF]
generateHash(data, nonce, shardId) ==
  LET hash == StdHash(data, nonce, shardId)
  IN  [k \in 1..HashLength |->
         HexDigits[((hash \div (2 ^ ((k - 1) % 16))) % 16) + 1]]

\* hash.substr(0, n)
Substr0(hash, n) == SubSeq(hash, 1, IF n < Len(hash) THEN n ELSE Len(hash))
\* std::string target(difficulty, '0')
ZeroTarget(difficulty) == [k \in 1..difficulty |-> "0"]

\* MiningManager::checkMiningLimit: getTotalMinedCoins() < MAX_MINABLE_COINS
MiningCheckMiningLimit == totalMinedCoins_ < MaxMinableCoins

\* ++nonce
NextNonce_Skip(nonce) == nonce + 2
NextNonce(nonce) == nonce + 1

\* addMinedCoins(amount) run by the only caller: the total it leaves
AddMinedCoinsTotal(current, amount) ==
  IF PassesCap(current, amount) THEN MaxMinableCoins ELSE current + amount

BlockMineInit ==
  /\ bpc = "idle"
  /\ bcall = [via |-> "none"]
  /\ bnonce = 0
  /\ bhash = <<>>
  /\ btries = 0
  /\ bresult = FALSE

\* a caller invokes mineBlock, or Block::mine of a block that was just built
MineInvoke(via, data, difficulty, reward) ==
  /\ bpc = "idle"
  /\ bpc' = IF via = "Block::mine" THEN "bm_check" ELSE "mb_lock"
  /\ bcall' = [via |-> via, data |-> data, difficulty |-> difficulty,
               reward |-> reward, shardId |-> 0,
               managerBefore |-> totalMinedCoins_,
               ledgerBefore |-> totalMinedCoins]
  /\ bnonce' = 0
  /\ bhash' = <<>>
  /\ btries' = 0
  /\ bresult' = FALSE
  /\ UNCHANGED <<totalMinedCoins_, miningMutex_>>

\* Block::mine lines 260-262
BlockMineCheck ==
  /\ bpc = "bm_check"
  /\ bpc' = IF MiningCheckMiningLimit THEN "mb_lock" ELSE "done"
  /\ UNCHANGED <<bcall, bnonce, bhash, btries, bresult,
                 totalMinedCoins_, miningMutex_>>

\* mineBlock lines 45-57: the lock_guard, the limit check, nonce = 0
MineBlockLock ==
  /\ bpc = "mb_lock"
  /\ miningMutex_ = NoThread
  /\ miningMutex_' = Miner
  /\ IF MiningCheckMiningLimit
     THEN bpc' = "mb_search" /\ bnonce' = 0
     ELSE bpc' = "mb_unlock" /\ bnonce' = bnonce
  /\ UNCHANGED <<bcall, bhash, btries, bresult, totalMinedCoins_>>

\* mineBlock lines 57-73: one pass of the loop body
MineBlockTry ==
  /\ bpc = "mb_search"
  /\ bnonce < MAX_NONCE_ATTEMPTS
  /\ LET hash == generateHash(bcall.data, bnonce, bcall.shardId)
     IN  /\ bhash' = hash
         /\ btries' = btries + 1
         /\ IF Substr0(hash, bcall.difficulty) = ZeroTarget(bcall.difficulty)
            THEN bresult' = TRUE /\ bpc' = "mb_unlock" /\ bnonce' = bnonce
            ELSE bresult' = FALSE /\ bpc' = "mb_search"
                 /\ bnonce' = NextNonce(bnonce)
  /\ UNCHANGED <<bcall, totalMinedCoins_, miningMutex_>>

\* mineBlock lines 57 and 75-77: the loop condition fails
MineBlockTimeout ==
  /\ bpc = "mb_search"
  /\ ~(bnonce < MAX_NONCE_ATTEMPTS)
  /\ bresult' = FALSE
  /\ bpc' = "mb_unlock"
  /\ UNCHANGED <<bcall, bnonce, bhash, btries, totalMinedCoins_, miningMutex_>>

\* mineBlock returns: the lock_guard is released
MineBlockUnlock ==
  /\ bpc = "mb_unlock"
  /\ miningMutex_' = NoThread
  /\ bpc' = IF bcall.via = "Block::mine" THEN "bm_credit" ELSE "done"
  /\ UNCHANGED <<bcall, bnonce, bhash, btries, bresult, totalMinedCoins_>>

\* Block::mine lines 268-274: if (success) miningManager.addMinedCoins(reward)
BlockMineCredit ==
  /\ bpc = "bm_credit"
  /\ totalMinedCoins_' = IF bresult
                         THEN AddMinedCoinsTotal(totalMinedCoins_, bcall.reward)
                         ELSE totalMinedCoins_
  /\ bpc' = "done"
  /\ UNCHANGED <<bcall, bnonce, bhash, btries, bresult, miningMutex_>>

\* the caller has the result
MineReturn ==
  /\ bpc = "done"
  /\ bpc' = "idle"
  /\ UNCHANGED <<bcall, bnonce, bhash, btries, bresult,
                 totalMinedCoins_, miningMutex_>>

(***************************************************************************)
(* ShardingManager, quantumpulse_sharding_v7.h                             *)
(***************************************************************************)
MAX_SHARDS == 2048
ACTIVE_SHARDS == 16
\* shardCount_ is set by the constructor and never written again
shardCount_ == ACTIVE_SHARDS

DataIds == {"d1", "d2"}
\* the shard ids callers ask for and ask about
RequestedShards == {-1, 0, 3, 15, 16, MAX_SHARDS}

\* std::hash<std::string_view>{}(dataId): the outcomes it has for the ids
StdHashId(dataId) == IF dataId = "d1" THEN 37 ELSE 63

\* mutant: the hash is not reduced
calculateShardId_Raw(dataId) == StdHashId(dataId)

\* lines 102-105
calculateShardId(dataId) == StdHashId(dataId) % ACTIVE_SHARDS

\* mutant: the upper limit is included
validateShard_Inclusive(shardId) == shardId >= 0 /\ shardId <= shardCount_

\* lines 57-59
validateShard(shardId) == shardId >= 0 /\ shardId < shardCount_

\* lines 62-71, on a given assignment map
ShardForData(assignments, dataId) ==
  IF dataId \in DOMAIN assignments THEN assignments[dataId]
  ELSE calculateShardId(dataId)

\* shardAssignments_[dataId] = effectiveShardId
Assigned(assignments, dataId, shardId) ==
  LET effectiveShardId == IF shardId < 0 \/ shardId >= shardCount_
                          THEN calculateShardId(dataId) ELSE shardId
  IN  IF dataId \in DOMAIN assignments
      THEN [assignments EXCEPT ![dataId] = effectiveShardId]
      ELSE assignments @@ (dataId :> effectiveShardId)

ShardingInit ==
  /\ shardAssignments_ = <<>>
  /\ shlast = [op |-> "none"]

\* assignShard(dataId, shardId), lines 35-44
assignShard(dataId, shardId) ==
  /\ shardAssignments_' = Assigned(shardAssignments_, dataId, shardId)
  /\ shlast' = [op |-> "assignShard", dataId |-> dataId, shardId |-> shardId,
                assignmentsBefore |-> shardAssignments_,
                shardBefore |-> ShardForData(shardAssignments_, dataId)]

\* getShardForData(dataId), lines 62-71
getShardForData(dataId) ==
  /\ shlast' = [op |-> "getShardForData", dataId |-> dataId,
                result |-> ShardForData(shardAssignments_, dataId)]
  /\ UNCHANGED shardAssignments_

\* a caller asks validateShard(shardId)
ValidateShard(shardId) ==
  /\ shlast' = [op |-> "validateShard", shardId |-> shardId,
                result |-> validateShard(shardId)]
  /\ UNCHANGED shardAssignments_

(***************************************************************************)
(* Transaction::Transaction, quantumpulse_blockchain_v7.h lines 78-155     *)
(***************************************************************************)
\* a double: a number, or NaN, with which every comparison is false
Dbl(v) == [nan |-> FALSE, v |-> v]
NaN == [nan |-> TRUE, v |-> 0]
DblLessEq(x, limit) == ~x.nan /\ x.v <= limit
DblLess(x, limit) == ~x.nan /\ x.v < limit
DblGreater(x, limit) == ~x.nan /\ x.v > limit

\* std::numeric_limits<double>::max() / 2
HalfDblMax == DblMax \div 2

\* the arguments of the constructor; a string is a sequence of pieces
TxSenders ==
  { <<>>, <<"alice">>, <<"al", ";", "ce">>, <<"my_", "SECRET">>,
    <<"drop ", "!!!!!!!!!!!!!!!!!!!!">> }
TxReceivers == { <<>>, <<"bob">>, <<"<", "bob">> }
TxAmounts == { Dbl(-1), Dbl(0), Dbl(1), Dbl(HalfDblMax + 1), NaN }
TxFees == { Dbl(-1), Dbl(0), Dbl(HalfDblMax + 1), NaN }
\* keyPair.multiSignatures: as generateKeyPair makes them, and one less
TxKeyPairs ==
  { [i \in 1..RequiredSignatures |-> CoSignature],
    [i \in 1..(RequiredSignatures - 1) |-> CoSignature] }
TxShards == {3}

\* std::to_string of a double that passed the checks
DoubleText(x) == IF x.nan THEN "nan" ELSE IF x.v = 0 THEN "0.000000"
                 ELSE "1.000000"

\* sender + receiver + to_string(amount) + to_string(fee)
\* + to_string(timestamp) + to_string(shardId)
TxData(sender, receiver, amount, fee, shardId) ==
  sender \o receiver \o
  <<DoubleText(amount), DoubleText(fee), "1700000000",
    IF shardId = 3 THEN "3" ELSE "16">>

\* the number of characters of a piece
PieceLength(piece) ==
  CASE piece \in {";", "<", "3"} -> 1
    [] piece \in {"al", "ce", "16"} -> 2
    [] piece \in {"bob", "my_", "nan"} -> 3
    [] piece \in {"alice", "drop "} -> 5
    [] piece = "SECRET" -> 6
    [] piece \in {"0.000000", "1.000000"} -> 8
    [] piece = "1700000000" -> 10
    [] piece = "!!!!!!!!!!!!!!!!!!!!" -> 20
    [] OTHER -> 0

\* the characters of a piece that are neither alphanumeric nor space
PieceSpecials(piece) ==
  CASE piece \in {";", "<", "my_", "0.000000", "1.000000"} -> 1
    [] piece = "!!!!!!!!!!!!!!!!!!!!" -> 20
    [] OTHER -> 0

\* std::tolower over a piece
LowerCase(piece) == IF piece = "SECRET" THEN "secret" ELSE piece

\* data.length()
RECURSIVE DataLength(_)
DataLength(data) ==
  IF data = <<>> THEN 0 ELSE PieceLength(Head(data)) + DataLength(Tail(data))

\* the count of the loop over the characters of data
RECURSIVE DataSpecials(_)
DataSpecials(data) ==
  IF data = <<>> THEN 0
  ELSE PieceSpecials(Head(data)) + DataSpecials(Tail(data))

sensitivePatterns_ ==
  {"password", "secret", "api_key", "private_key", "token", "credential",
   "ssn", "credit_card"}
attackPatterns_ ==
  {"select ", "drop ", "delete ", "insert ", "<script", "javascript:",
   "onerror=", "onclick="}

\* AIManager::preventDataLeak: a sensitive pattern in the lower-cased data
preventDataLeak(data) ==
  \E i \in 1..Len(data) : LowerCase(data[i]) \in sensitivePatterns_

\* AIManager::detectAnomaly: the score, in tenths, is above 5
detectAnomaly(data) ==
  LET length == DataLength(data)
      specialChars == DataSpecials(data)
      lengthScore == IF length > 1000000 \/ length < 5 THEN 3 ELSE 0
      ratioScore ==
        IF 10 * specialChars > 3 * (IF length > 1 THEN length ELSE 1)
        THEN 3 ELSE 0
      attackScore ==
        IF \E i \in 1..Len(data) : data[i] \in attackPatterns_ THEN 4 ELSE 0
  IN  lengthScore + ratioScore + attackScore > 5

\* cryptoManager.sha3_512_v11(data, shardId): the id of the transaction
TxIdOf(data) == IF Contains(data, <<"alice">>) THEN "d1" ELSE "d2"

\* how the constructor ends: the exception it throws, or "constructed"
ConstructionOutcome(sender, receiver, amount, fee, multiSignatures, shardId) ==
  IF sender = <<>> \/ receiver = <<>> THEN "invalid_argument"
  ELSE IF DblLessEq(amount, 0) THEN "invalid_argument"
  ELSE IF DblLess(fee, 0) THEN "invalid_argument"
  ELSE IF \/ Contains(sender, <<";">>) \/ Contains(receiver, <<";">>)
          \/ Contains(sender, <<"<">>) \/ Contains(receiver, <<"<">>)
  THEN "invalid_argument"
  ELSE IF DblGreater(amount, HalfDblMax) \/ DblGreater(fee, HalfDblMax)
  THEN "overflow_error"
  ELSE IF ~validateMultiSignature(multiSignatures) THEN "runtime_error"
  ELSE IF preventDataLeak(TxData(sender, receiver, amount, fee, shardId))
  THEN "runtime_error"
  ELSE "constructed"

TransactionInit == txlast = [called |-> FALSE]

\* Transaction(sender_, receiver_, amount_, fee_, keyPair, shardId_, ...)
ConstructTransaction(sender, receiver, amount, fee, multiSignatures, shardId) ==
  LET data == TxData(sender, receiver, amount, fee, shardId)
      outcome == ConstructionOutcome(sender, receiver, amount, fee,
                                     multiSignatures, shardId)
  IN  /\ shardAssignments_' =
           IF outcome = "constructed"
           THEN Assigned(shardAssignments_, TxIdOf(data), shardId)
           ELSE shardAssignments_
      /\ txlast' = [called |-> TRUE, sender |-> sender, receiver |-> receiver,
                    amount |-> amount, fee |-> fee,
                    multiSignatures |-> multiSignatures, shardId |-> shardId,
                    txId |-> TxIdOf(data), outcome |-> outcome,
                    anomaly |-> detectAnomaly(data),
                    assignmentsBefore |-> shardAssignments_]
      /\ UNCHANGED shlast

(***************************************************************************)
(* UpgradeManager, quantumpulse_upgrades_v7.h                              *)
(***************************************************************************)
MAX_ROLLBACK_VERSIONS == 10
\* the number of updates the model lets applyUpdate apply
MaxUpdates == 11

UpdateData == {"", "patch"}

\* lines 120-131: the number after the last '.' goes up by one
incrementVersion(version) == <<version[1], version[2], version[3] + 1>>

UpgradeInit ==
  /\ currentVersion_ = <<7, 0, 0>>
  /\ versionHistory_ = <<currentVersion_>>
  /\ appliedUpdates_ = <<>>
  /\ upending = <<>>
  /\ upcount = 0
  /\ uplast = [op |-> "none"]

\* applyUpdate(updateData), lines 36-57
applyUpdate(updateData) ==
  /\ upcount < MaxUpdates
  /\ uplast' = [op |-> "applyUpdate", updateData |-> updateData,
                versionBefore |-> currentVersion_,
                historyBefore |-> versionHistory_,
                pendingBefore |-> upending]
  /\ IF updateData = ""
     THEN UNCHANGED <<currentVersion_, versionHistory_, appliedUpdates_,
                      upending, upcount>>
     ELSE /\ versionHistory_' =
               Append(IF Len(versionHistory_) >= MAX_ROLLBACK_VERSIONS
                      THEN Tail(versionHistory_) ELSE versionHistory_,
                      currentVersion_)
          /\ appliedUpdates_' = Append(appliedUpdates_, updateData)
          /\ currentVersion_' = incrementVersion(currentVersion_)
          /\ upending' = Append(upending, currentVersion_)
          /\ upcount' = upcount + 1

\* rollback(), lines 60-79
rollback ==
  IF Len(versionHistory_) <= 1
  THEN /\ uplast' = [op |-> "rollback", result |-> FALSE,
                     versionBefore |-> currentVersion_,
                     historyBefore |-> versionHistory_,
                     pendingBefore |-> upending]
       /\ UNCHANGED <<currentVersion_, versionHistory_, appliedUpdates_,
                      upending, upcount>>
  ELSE /\ versionHistory_' = SubSeq(versionHistory_, 1, Len(versionHistory_) - 1)
       /\ appliedUpdates_' =
            IF appliedUpdates_ # <<>>
            THEN SubSeq(appliedUpdates_, 1, Len(appliedUpdates_) - 1)
            ELSE appliedUpdates_
       /\ currentVersion_' = versionHistory_'[Len(versionHistory_')]
       /\ upending' = IF upending # <<>>
                      THEN SubSeq(upending, 1, Len(upending) - 1) ELSE upending
       /\ uplast' = [op |-> "rollback", result |-> TRUE,
                     versionBefore |-> currentVersion_,
                     historyBefore |-> versionHistory_,
                     pendingBefore |-> upending]
       /\ UNCHANGED upcount

(***************************************************************************)
(* SessionManager, quantumpulse_security_v7.h                              *)
(***************************************************************************)
SESSION_TIMEOUT_SECONDS == 3600
\* the number of sessions the model lets createSession create
MaxSessions == 1
\* the number of steps of the session clock, each half a timeout long
MaxSessionTicks == 3

SessionUsers == {"u1", "u2"}
SessionIps == {"ip1", "ip2"}
\* a session id that createSession never returns
UnknownSession == 0
\* createSession returns 32 random bytes in hex: an id that was not seen
\* before; the n-th session gets the id n
IssuedSessions == DOMAIN sissued

\* mutant: the session is kept
Erased_Kept(sessions, sessionId) == sessions

\* sessions_.erase(sessionId)
Erased(sessions, sessionId) ==
  [id \in DOMAIN sessions \ {sessionId} |-> sessions[id]]

\* sessions_.find(sessionId): the session, if there is one
SessionFound(sessionId) ==
  IF sessionId \in DOMAIN sessions_ THEN Some(sessions_[sessionId])
  ELSE Absent

SessionInit ==
  /\ sessions_ = <<>>
  /\ sissued = <<>>
  /\ sdestroyed = {}
  /\ selast = [op |-> "none"]

\* createSession(userId, ip), lines 169-197
createSession(userId, ip) ==
  /\ Len(sissued) < MaxSessions
  /\ LET sessionId == Len(sissued) + 1
         session == [sessionId |-> sessionId, userId |-> userId,
                     ipAddress |-> ip, createdAt |-> now,
                     lastActivity |-> now, is2FAVerified |-> FALSE]
     IN  /\ sessions_' = sessions_ @@ (sessionId :> session)
         /\ sissued' = Append(sissued, [userId |-> userId, ip |-> ip,
                                      at |-> now])
         /\ selast' = [op |-> "createSession", result |-> sessionId]
  /\ UNCHANGED <<sdestroyed, now>>

\* validateSession(sessionId, ip), lines 200-229
validateSession(sessionId, ip) ==
  /\ IF sessionId \notin DOMAIN sessions_
     THEN /\ selast' = [op |-> "validateSession", sessionId |-> sessionId,
                        ip |-> ip, result |-> Absent,
                        found |-> SessionFound(sessionId), time |-> now]
          /\ UNCHANGED sessions_
     ELSE IF sessions_[sessionId].ipAddress # ip
     THEN /\ sessions_' = Erased(sessions_, sessionId)
          /\ selast' = [op |-> "validateSession", sessionId |-> sessionId,
                        ip |-> ip, result |-> Absent,
                        found |-> SessionFound(sessionId), time |-> now]
     ELSE IF now - sessions_[sessionId].lastActivity > SESSION_TIMEOUT_SECONDS
     THEN /\ sessions_' = Erased(sessions_, sessionId)
          /\ selast' = [op |-> "validateSession", sessionId |-> sessionId,
                        ip |-> ip, result |-> Absent,
                        found |-> SessionFound(sessionId), time |-> now]
     ELSE /\ sessions_' = [sessions_ EXCEPT ![sessionId].lastActivity = now]
          /\ selast' = [op |-> "validateSession", sessionId |-> sessionId,
                        ip |-> ip, result |-> Some(sessions_'[sessionId]),
                        found |-> SessionFound(sessionId), time |-> now]
  /\ UNCHANGED <<sissued, sdestroyed, now>>

\* destroySession(sessionId), lines 232-235
destroySession(sessionId) ==
  /\ sessions_' = Erased(sessions_, sessionId)
  /\ sdestroyed' = sdestroyed \union {sessionId}
  /\ selast' = [op |-> "destroySession", sessionId |-> sessionId]
  /\ UNCHANGED <<sissued, now>>

\* std::time(nullptr) advances by half the session timeout
SessionTick ==
  /\ now < MaxSessionTicks * (SESSION_TIMEOUT_SECONDS \div 2)
  /\ now' = now + (SESSION_TIMEOUT_SECONDS \div 2)
  /\ UNCHANGED sessionVars

(***************************************************************************)
(* The locks of the components: which mutex each call takes and releases,  *)
(* in the order of its code.  A program is the sequence of lock            *)
(* operations of one call; what the call computes between them is left     *)
(* out.                                                                    *)
(***************************************************************************)
\* the number of calls the model follows for each thread
MaxLockCalls == 2

Mutexes ==
  {"chainMutex", "cryptoMutex_", "queueMutex_", "utxoMutex_", "mempoolMutex_",
   "miningMutex_", "shardMutex_"}

Lock(m) == <<"lock", m>>
LockShared(m) == <<"lock_shared", m>>
Unlock(m) == <<"unlock", m>>

\* Logger::log, quantumpulse_logging_v7.h lines 84-87: the queue's mutex is
\* held for the push only
LogProgram == <<Lock("queueMutex_"), Unlock("queueMutex_")>>

\* a CryptoManager method that takes cryptoMutex_ and calls nothing that
\* locks (verifyTransaction, zkStarkVerify_v11, validateMultiSignature)
CryptoProgram == <<Lock("cryptoMutex_"), Unlock("cryptoMutex_")>>

\* sha3_512_v11, quantumpulse_crypto_v7.h lines 167-200: validateInput logs
\* (and Logger::log flushes a critical entry) while cryptoMutex_ is held
HashProgram ==
  <<Lock("cryptoMutex_")>> \o LogProgram \o LogProgram
    \o <<Unlock("cryptoMutex_")>>

\* MiningManager::mineBlock, lines 42-78, and addMinedCoins, lines 86-101
MineBlockProgram ==
  <<Lock("miningMutex_")>> \o LogProgram \o <<Unlock("miningMutex_")>>
AddMinedCoinsProgram ==
  <<Lock("miningMutex_")>> \o LogProgram \o <<Unlock("miningMutex_")>>

\* mutant: transfer hashes before it takes the chain's lock
TransferProgram_HashFirst ==
  <<Lock("cryptoMutex_"), Lock("chainMutex"), Unlock("chainMutex"),
    Unlock("cryptoMutex_")>>

\* Blockchain::transfer, lines 437-487
TransferProgram ==
  <<Lock("chainMutex")>> \o HashProgram \o LogProgram
    \o <<Unlock("chainMutex")>>

\* the calls and their programs
LockCalls ==
  {"addBlock", "transfer", "getBalance", "validateChain", "getChainLength",
   "addUTXO", "validateInputs", "addTransaction", "getBlockTemplate",
   "mineBlock", "Block::mine", "assignShard"}

LockProgram(call) ==
  CASE call = "addBlock" ->
         \* lines 367-385, for a block with one transaction (lines 157-179)
         <<Lock("chainMutex")>> \o CryptoProgram \o CryptoProgram
           \o CryptoProgram \o LogProgram \o <<Unlock("chainMutex")>>
    [] call = "transfer" -> TransferProgram
    [] call = "getBalance" ->
         <<LockShared("chainMutex"), Unlock("chainMutex")>>
    [] call = "validateChain" ->
         \* lines 387-405; the CryptoManager of line 391 is a local object
         <<LockShared("chainMutex")>> \o LogProgram
           \o <<Unlock("chainMutex")>>
    [] call = "getChainLength" ->
         <<LockShared("chainMutex"), Unlock("chainMutex")>>
    [] call = "addUTXO" -> <<Lock("utxoMutex_"), Unlock("utxoMutex_")>>
    [] call = "validateInputs" ->
         \* quantumpulse_utxo_v7.h lines 132-150: one getUTXO for each of
         \* two inputs
         <<Lock("utxoMutex_"), Unlock("utxoMutex_"),
           Lock("utxoMutex_"), Unlock("utxoMutex_")>>
    [] call = "addTransaction" ->
         <<Lock("mempoolMutex_")>> \o LogProgram
           \o <<Unlock("mempoolMutex_")>>
    [] call = "getBlockTemplate" ->
         <<Lock("mempoolMutex_"), Unlock("mempoolMutex_")>>
    [] call = "mineBlock" -> MineBlockProgram
    [] call = "Block::mine" ->
         \* quantumpulse_blockchain_v7.h lines 258-275
         MineBlockProgram \o AddMinedCoinsProgram \o LogProgram
    [] call = "assignShard" -> <<Lock("shardMutex_"), Unlock("shardMutex_")>>

LockInit ==
  /\ kcall = [t \in Threads |-> "idle"]
  /\ kip = [t \in Threads |-> 1]
  /\ kheld = [t \in Threads |-> <<>>]
  /\ kdone = [t \in Threads |-> 0]

\* the lock operation the call of t is at
NextLockOp(t) == LockProgram(kcall[t])[kip[t]]

HoldsMutex(t, m) == \E i \in 1..Len(kheld[t]) : kheld[t][i][2] = m
HoldsExclusive(t, m) ==
  \E i \in 1..Len(kheld[t]) : kheld[t][i] = Lock(m)

\* lock() returns when nobody holds the mutex; lock_shared() when nobody
\* holds it exclusively
LockAvailable(t, op) ==
  IF op[1] = "lock"
  THEN \A u \in Threads \ {t} : ~HoldsMutex(u, op[2])
  ELSE \A u \in Threads \ {t} : ~HoldsExclusive(u, op[2])

\* the held locks without the last acquisition of m
RECURSIVE Released(_, _)
Released(held, m) ==
  IF held = <<>> THEN <<>>
  ELSE IF held[Len(held)][2] = m THEN SubSeq(held, 1, Len(held) - 1)
  ELSE Append(Released(SubSeq(held, 1, Len(held) - 1), m), held[Len(held)])

\* a thread begins a call
LockInvoke(t, call) ==
  /\ kcall[t] = "idle"
  /\ kdone[t] < MaxLockCalls
  /\ kcall' = [kcall EXCEPT ![t] = call]
  /\ kip' = [kip EXCEPT ![t] = 1]
  /\ UNCHANGED <<kheld, kdone>>

\* the constructor of a lock_guard, unique_lock or shared_lock returns
LockAcquire(t) ==
  /\ kcall[t] # "idle"
  /\ kip[t] <= Len(LockProgram(kcall[t]))
  /\ NextLockOp(t)[1] \in {"lock", "lock_shared"}
  /\ LockAvailable(t, NextLockOp(t))
  /\ kheld' = [kheld EXCEPT ![t] = Append(@, NextLockOp(t))]
  /\ kip' = [kip EXCEPT ![t] = @ + 1]
  /\ UNCHANGED <<kcall, kdone>>

\* its destructor
LockRelease(t) ==
  /\ kcall[t] # "idle"
  /\ kip[t] <= Len(LockProgram(kcall[t]))
  /\ NextLockOp(t)[1] = "unlock"
  /\ kheld' = [kheld EXCEPT ![t] = Released(@, NextLockOp(t)[2])]
  /\ kip' = [kip EXCEPT ![t] = @ + 1]
  /\ UNCHANGED <<kcall, kdone>>

\* the call returns
LockReturn(t) ==
  /\ kcall[t] # "idle"
  /\ kip[t] > Len(LockProgram(kcall[t]))
  /\ kcall' = [kcall EXCEPT ![t] = "idle"]
  /\ kip' = [kip EXCEPT ![t] = 1]
  /\ kdone' = [kdone EXCEPT ![t] = @ + 1]
  /\ UNCHANGED kheld

(***************************************************************************)
(* Blockchain::transfer on double amounts, lines 437-487.  The call holds  *)
(* chainMutex exclusively from entry to return, so it is one step here.    *)
(***************************************************************************)
\* x + y and x - y on doubles: NaN is absorbing
DblAdd(x, y) == IF x.nan \/ y.nan THEN NaN ELSE Dbl(x.v + y.v)
DblSub(x, y) == IF x.nan \/ y.nan THEN NaN ELSE Dbl(x.v - y.v)

\* x < y on doubles: false as soon as one side is NaN
DblLessThan(x, y) == ~x.nan /\ ~y.nan /\ x.v < y.v

\* m[k] += v on a map of doubles; operator[] inserts 0.0 for a missing key
DblMapAdd(m, k, v) ==
  IF k \in DOMAIN m THEN [m EXCEPT ![k] = DblAdd(@, v)]
  ELSE m @@ (k :> DblAdd(Dbl(0), v))

\* the exploration stops at balances above this many coins
MaxHeld == 3000000

\* the amounts callers pass
DblAmounts == {Dbl(0), Dbl(1000000), Dbl(2000000), NaN}

AmountInit ==
  /\ dblBalances = <<>>
  /\ dblHiddenBalances = (founderStealthAddress :> Dbl(PreminedCoins))
  /\ lastTransfer = [name |-> "none"]

\* line 443: from.empty() || to.empty() || amount <= 0
TransferInputsRejected(from, to, amount) ==
  from = "" \/ to = "" \/ DblLessEq(amount, 0)

\* lines 447-466: the sender is a key of hiddenBalances
TransferFromHidden(from, to, amount, privateKey) ==
  IF DblLessThan(dblHiddenBalances[from], amount)
     \/ ~authenticateUser(from, privateKey)
  THEN /\ UNCHANGED <<dblBalances, dblHiddenBalances>>
       /\ lastTransfer' = [name |-> "transfer", from |-> from, to |-> to,
                           amount |-> amount, result |-> FALSE]
  ELSE LET debited == [dblHiddenBalances EXCEPT ![from] = DblSub(@, amount)]
       IN /\ IF to \in DOMAIN debited
             THEN /\ dblHiddenBalances' = DblMapAdd(debited, to, amount)
                  /\ UNCHANGED dblBalances
             ELSE /\ dblHiddenBalances' = debited
                  /\ dblBalances' = DblMapAdd(dblBalances, to, amount)
          /\ lastTransfer' = [name |-> "transfer", from |-> from, to |-> to,
                              amount |-> amount, result |-> TRUE]

\* lines 468-486: the sender is looked up in balances
TransferFromPublic(from, to, amount) ==
  IF from \notin DOMAIN dblBalances
     \/ DblLessThan(dblBalances[from], amount)
  THEN /\ UNCHANGED <<dblBalances, dblHiddenBalances>>
       /\ lastTransfer' = [name |-> "transfer", from |-> from, to |-> to,
                           amount |-> amount, result |-> FALSE]
  ELSE /\ dblBalances' =
            DblMapAdd([dblBalances EXCEPT ![from] = DblSub(@, amount)],
                      to, amount)
       /\ UNCHANGED dblHiddenBalances
       /\ lastTransfer' = [name |-> "transfer", from |-> from, to |-> to,
                           amount |-> amount, result |-> TRUE]

\* one call of transfer(from, to, amount, privateKey, shardId)
transfer(from, to, amount, privateKey) ==
  IF TransferInputsRejected(from, to, amount)
  THEN /\ UNCHANGED <<dblBalances, dblHiddenBalances>>
       /\ lastTransfer' = [name |-> "transfer", from |-> from, to |-> to,
                           amount |-> amount, result |-> FALSE]
  ELSE IF from \in DOMAIN dblHiddenBalances
  THEN TransferFromHidden(from, to, amount, privateKey)
  ELSE TransferFromPublic(from, to, amount)

(***************************************************************************)
(* Specifications                                                          *)
(***************************************************************************)
Init == LedgerInit /\ MiningInit /\ UTXOInit /\ MempoolInit /\ PureInit
  /\ DifficultyInit
  /\ BlockMineInit
  /\ ShardingInit
  /\ TransactionInit
  /\ UpgradeInit
  /\ SessionInit
  /\ LockInit
  /\ AmountInit

\* transfers and balance queries of concurrent callers
TransferStep(t) ==
  \/ TransferInvoke(t)
  \/ TransferLock(t)
  \/ TransferGuard(t)
  \/ TransferCheck(t)
  \/ TransferCreditHidden(t)
  \/ TransferCreditPublic(t)
  \/ TransferReturn(t)
  \/ GetBalanceInvoke(t)
  \/ GetBalanceRead(t)
  \/ GetBalanceReturn(t)

TransferNext ==
  /\ \E t \in Threads : TransferStep(t)
  /\ UNCHANGED <<now, miningVars, utxoVars, memVars, pureVars,
                 diffVars,
                 blockMineVars,
                 shardVars,
                 txVars,
                 upgradeVars,
                 sessionVars,
                 lockVars,
                 amountVars>>

SpecTransfer == Init /\ [][TransferNext]_vars

\* concurrent addBlock callers, and the clock
ChainStep(t) ==
  \/ AddBlockInvoke(t)
  \/ AddBlockLock(t)
  \/ AddBlockGuard(t)
  \/ AddBlockValidate(t)
  \/ AddBlockCount(t)
  \/ AddBlockReturn(t)

ChainNext ==
  \/ /\ \E t \in Threads : ChainStep(t)
     /\ UNCHANGED <<now, miningVars, utxoVars, memVars, pureVars,
                 diffVars,
                 blockMineVars,
                 shardVars,
                 txVars,
                 upgradeVars,
                 sessionVars,
                 lockVars,
                 amountVars>>
  \/ Tick

SpecChain == Init /\ [][ChainNext]_vars

\* concurrent addMinedCoins
MiningStep(t) ==
  \/ AddMinedCoinsInvoke(t)
  \/ AddMinedCoinsLock(t)
  \/ AddMinedCoinsLoad(t)
  \/ AddMinedCoinsUpdate(t)
  \/ AddMinedCoinsReturn(t)

MiningNext ==
  /\ \E t \in Threads : MiningStep(t)
  /\ UNCHANGED <<ledgerVars, now, utxoVars, memVars, pureVars,
                 diffVars,
                 blockMineVars,
                 shardVars,
                 txVars,
                 upgradeVars,
                 sessionVars,
                 lockVars,
                 amountVars>>

SpecMining == Init /\ [][MiningNext]_vars

\* concurrent UTXOSet writers and readers
UTXOStep(t) ==
  \/ UTXOInvoke(t)
  \/ AddUTXOLock(t)
  \/ AddUTXOPrimary(t)
  \/ AddUTXOIndex(t)
  \/ SpendUTXOLock(t)
  \/ SpendUTXOCheck(t)
  \/ SpendUTXOIndex(t)
  \/ SpendUTXOPrimary(t)
  \/ GetUTXORead(t)
  \/ GetAddressUTXOsRead(t)
  \/ UTXOGetBalanceRead(t)
  \/ UTXOReturn(t)

UTXONext ==
  /\ \E t \in Threads : UTXOStep(t)
  /\ UNCHANGED <<ledgerVars, now, miningVars, memVars, pureVars,
                 diffVars,
                 blockMineVars,
                 shardVars,
                 txVars,
                 upgradeVars,
                 sessionVars,
                 lockVars,
                 amountVars>>

SpecUTXO == Init /\ [][UTXONext]_vars

\* one caller of the UTXOSet, validateInputs included
UTXOSeqStep(t) ==
  \/ UTXOInvoke(t)
  \/ AddUTXOLock(t)
  \/ AddUTXOPrimary(t)
  \/ AddUTXOIndex(t)
  \/ SpendUTXOLock(t)
  \/ SpendUTXOCheck(t)
  \/ SpendUTXOIndex(t)
  \/ SpendUTXOPrimary(t)
  \/ ValidateInputsInvoke(t)
  \/ ValidateInputsInput(t)
  \/ ValidateInputsCompare(t)
  \/ UTXOReturn(t)

UTXOSeqNext ==
  /\ UTXOSeqStep("t1")
  /\ UNCHANGED <<ledgerVars, now, miningVars, memVars, pureVars,
                 diffVars,
                 blockMineVars,
                 shardVars,
                 txVars,
                 upgradeVars,
                 sessionVars,
                 lockVars,
                 amountVars>>

SpecUTXOSeq == Init /\ [][UTXOSeqNext]_vars

\* the callers of the mempool
MempoolNext ==
  /\ \/ \E tx \in MempoolTxs : addTransaction(tx)
     \/ \E txid \in MempoolTxids : removeTransaction(txid)
     \/ \E maxWeight \in MaxWeights : getBlockTemplate(maxWeight)
     \/ getBytes
  /\ UNCHANGED <<ledgerVars, now, miningVars, utxoVars, pureVars,
                 diffVars,
                 blockMineVars,
                 shardVars,
                 txVars,
                 upgradeVars,
                 sessionVars,
                 lockVars,
                 amountVars>>

SpecMempool == Init /\ [][MempoolNext]_vars

\* callers of the price and reward functions
PureNext ==
  /\ \/ AdjustCoinPrice
     \/ LedgerReward
     \/ MiningReward
  /\ UNCHANGED <<ledgerVars, now, miningVars, utxoVars, memVars,
                 diffVars,
                 blockMineVars,
                 shardVars,
                 txVars,
                 upgradeVars,
                 sessionVars,
                 lockVars,
                 amountVars>>

SpecPure == Init /\ [][PureNext]_vars

\* callers of adjustDifficulty
DifficultyNext ==
  /\ \E actual \in ActualBlockTimes, target \in TargetBlockTimes :
       adjustDifficulty(actual, target)
  /\ UNCHANGED <<ledgerVars, now, miningVars, utxoVars, memVars, pureVars,
                 blockMineVars,
                 shardVars,
                 txVars,
                 upgradeVars,
                 sessionVars,
                 lockVars,
                 amountVars>>

SpecDifficulty == Init /\ [][DifficultyNext]_vars

\* the steps of a call that is under way
BlockMineRun ==
  /\ \/ BlockMineCheck
     \/ MineBlockLock
     \/ MineBlockTry
     \/ MineBlockTimeout
     \/ MineBlockUnlock
     \/ BlockMineCredit
     \/ MineReturn
  /\ UNCHANGED <<ledgerVars, now, mpc, mamount, mcurrent, utxoVars, memVars,
                 pureVars, diffVars,
                 shardVars,
                 txVars,
                 upgradeVars,
                 sessionVars,
                 lockVars,
                 amountVars>>

\* one caller of mineBlock and Block::mine; a call that began keeps running
BlockMineNext ==
  \/ /\ \E via \in {"mineBlock", "Block::mine"}, data \in MineData,
           difficulty \in MineDifficulties, reward \in MineRewards :
          MineInvoke(via, data, difficulty, reward)
     /\ UNCHANGED <<ledgerVars, now, mpc, mamount, mcurrent, utxoVars,
                    memVars, pureVars, diffVars,
                 shardVars,
                 txVars,
                 upgradeVars,
                 sessionVars,
                 lockVars,
                 amountVars>>
  \/ BlockMineRun

SpecBlockMine == Init /\ [][BlockMineNext]_vars /\ WF_vars(BlockMineRun)

\* callers of the ShardingManager
ShardingNext ==
  /\ \/ \E dataId \in DataIds, shardId \in RequestedShards :
          assignShard(dataId, shardId)
     \/ \E dataId \in DataIds : getShardForData(dataId)
     \/ \E shardId \in RequestedShards : ValidateShard(shardId)
  /\ UNCHANGED <<ledgerVars, now, miningVars, utxoVars, memVars, pureVars,
                 diffVars, blockMineVars,
                 txVars,
                 upgradeVars,
                 sessionVars,
                 lockVars,
                 amountVars>>

SpecSharding == Init /\ [][ShardingNext]_vars

\* callers of the Transaction constructor
TransactionNext ==
  /\ \E sender \in TxSenders, receiver \in TxReceivers, amount \in TxAmounts,
        fee \in TxFees, multiSignatures \in TxKeyPairs, shardId \in TxShards :
       ConstructTransaction(sender, receiver, amount, fee, multiSignatures,
                            shardId)
  /\ UNCHANGED <<ledgerVars, now, miningVars, utxoVars, memVars, pureVars,
                 diffVars, blockMineVars,
                 upgradeVars,
                 sessionVars,
                 lockVars,
                 amountVars>>

SpecTransaction == Init /\ [][TransactionNext]_vars

\* callers of the UpgradeManager
UpgradeNext ==
  /\ \/ \E updateData \in UpdateData : applyUpdate(updateData)
     \/ rollback
  /\ UNCHANGED <<ledgerVars, now, miningVars, utxoVars, memVars, pureVars,
                 diffVars, blockMineVars, shardVars, txVars,
                 sessionVars,
                 lockVars,
                 amountVars>>

SpecUpgrade == Init /\ [][UpgradeNext]_vars

\* callers of the SessionManager, and the clock
SessionNext ==
  /\ \/ \E userId \in SessionUsers, ip \in SessionIps :
          createSession(userId, ip)
     \/ \E sessionId \in IssuedSessions \union {UnknownSession},
           ip \in SessionIps : validateSession(sessionId, ip)
     \/ \E sessionId \in IssuedSessions \union {UnknownSession} :
          destroySession(sessionId)
     \/ SessionTick
  /\ UNCHANGED <<ledgerVars, miningVars, utxoVars, memVars, pureVars,
                 diffVars, blockMineVars, shardVars, txVars, upgradeVars,
                 lockVars,
                 amountVars>>

SpecSession == Init /\ [][SessionNext]_vars

\* the blocks and the amounts the callers of this specification pass
GuardBlocks ==
  { MinedBlock, [MinedBlock EXCEPT !.isOrphaned = TRUE], ThrowingBlock }
GuardInputs(op) == op.name = "transfer" => op.amount \in {0, 1000000}

\* concurrent addBlock and transfer callers, with the exits by exception
GuardStep(t) ==
  \/ AddBlockInvoke(t)
  \/ AddBlockLockWith(t, GuardBlocks)
  \/ AddBlockGuard(t)
  \/ AddBlockValidate(t)
  \/ AddBlockThrow(t)
  \/ AddBlockCount(t)
  \/ AddBlockReturn(t)
  \/ TransferInvoke(t)
  \/ TransferLock(t)
  \/ TransferGuard(t)
  \/ TransferCheck(t)
  \/ TransferCreditHidden(t)
  \/ TransferCreditPublic(t)
  \/ TransferThrow(t)
  \/ TransferReturn(t)

GuardNext ==
  /\ \E t \in Threads : GuardStep(t) /\ GuardInputs(lop'[t])
  /\ UNCHANGED <<now, miningVars, utxoVars, memVars, pureVars,
                 diffVars, blockMineVars, shardVars, txVars, upgradeVars,
                 sessionVars,
                 lockVars,
                 amountVars>>

SpecGuard == Init /\ [][GuardNext]_vars

\* the steps of the call of t that is under way
LockRun(t) ==
  /\ \/ LockAcquire(t)
     \/ LockRelease(t)
     \/ LockReturn(t)
  /\ UNCHANGED <<ledgerVars, now, miningVars, utxoVars, memVars, pureVars,
                 diffVars, blockMineVars, shardVars, txVars, upgradeVars,
                 sessionVars,
                 amountVars>>

\* concurrent callers of the components; a call that began keeps running
LocksNext ==
  \/ /\ \E t \in Threads, call \in LockCalls : LockInvoke(t, call)
     /\ UNCHANGED <<ledgerVars, now, miningVars, utxoVars, memVars, pureVars,
                    diffVars, blockMineVars, shardVars, txVars, upgradeVars,
                    sessionVars,
                 amountVars>>
  \/ \E t \in Threads : LockRun(t)

SpecLocks ==
  Init /\ [][LocksNext]_vars /\ \A t \in Threads : WF_vars(LockRun(t))

\* callers of transfer, one call at a time, with every double as amount
AmountNext ==
  /\ \E from \in Senders, to \in LedgerAddresses, amount \in DblAmounts,
        privateKey \in {EmptyToken, PlainToken} :
       transfer(from, to, amount, privateKey)
  /\ \A a \in DOMAIN dblBalances' : dblBalances'[a].v <= MaxHeld
  /\ UNCHANGED <<ledgerVars, now, miningVars, utxoVars, memVars, pureVars,
                 diffVars, blockMineVars, shardVars, txVars, upgradeVars,
                 sessionVars, lockVars>>

SpecAmount == Init /\ [][AmountNext]_vars

\* main.cpp lines 123-128: the block that was mined, as the caller holds it
\* after Block::mine wrote nonce and hash; prevHash, transactions and the
\* orphan flag are the caller's
MinedBlocks ==
  { [prevHash |-> prevHash, hash |-> bhash, nonce |-> bnonce,
     difficulty |-> bcall.difficulty, reward |-> bcall.reward,
     transactions |-> transactions, isOrphaned |-> isOrphaned,
     shardId |-> bcall.shardId] :
      prevHash \in {<<"h">>, <<"genesis_", "x">>},
      transactions \in {<<>>, <<GoodTx>>, <<ForgedTx>>},
      isOrphaned \in BOOLEAN }

\* the reward of every block of the loop: the mined-coin cap is reached
\* with the second block
MainReward == 2000000

\* main.cpp lines 130-131: block.mine(...) is called
MainMine ==
  /\ lpc[Miner] = "idle"
  /\ \E data \in MineData, difficulty \in MineDifficulties :
       MineInvoke("Block::mine", data, difficulty, MainReward)
  /\ UNCHANGED <<ledgerVars, now, mpc, mamount, mcurrent, utxoVars, memVars,
                 pureVars, diffVars, shardVars, txVars, upgradeVars,
                 sessionVars, lockVars, amountVars>>

\* Block::mine and mineBlock run to their return
MainMineRun ==
  /\ \/ BlockMineCheck
     \/ MineBlockLock
     \/ MineBlockTry
     \/ MineBlockTimeout
     \/ MineBlockUnlock
     \/ BlockMineCredit
  /\ UNCHANGED <<ledgerVars, now, mpc, mamount, mcurrent, utxoVars, memVars,
                 pureVars, diffVars, shardVars, txVars, upgradeVars,
                 sessionVars, lockVars, amountVars>>

\* main.cpp lines 138-140: mine returned false
MainMiningFailed ==
  /\ ~bresult
  /\ MineReturn
  /\ UNCHANGED <<ledgerVars, now, mpc, mamount, mcurrent, utxoVars, memVars,
                 pureVars, diffVars, shardVars, txVars, upgradeVars,
                 sessionVars, lockVars, amountVars>>

\* main.cpp lines 133-134: mine returned true and addBlock(block) is called
MainAddBlock ==
  /\ bresult
  /\ MineReturn
  /\ AddBlockInvoke(Miner)
  /\ UNCHANGED <<now, mpc, mamount, mcurrent, utxoVars, memVars,
                 pureVars, diffVars, shardVars, txVars, upgradeVars,
                 sessionVars, lockVars, amountVars>>

\* addBlock(block) runs to its return
MainAddBlockRun ==
  /\ \/ AddBlockLockWith(Miner, MinedBlocks)
     \/ AddBlockGuard(Miner)
     \/ AddBlockValidate(Miner)
     \/ AddBlockCount(Miner)
     \/ AddBlockReturn(Miner)
  /\ UNCHANGED <<now, miningVars, utxoVars, memVars, pureVars, diffVars,
                 blockMineVars, shardVars, txVars, upgradeVars, sessionVars,
                 lockVars, amountVars>>

\* the mining loop of main.cpp while the clock runs
MainNext ==
  \/ MainMine
  \/ MainMineRun
  \/ MainMiningFailed
  \/ MainAddBlock
  \/ MainAddBlockRun
  \/ Tick

SpecMain == Init /\ [][MainNext]_vars

(***************************************************************************)
(* Claims                                                                  *)
(***************************************************************************)

\* C1: in every state reachable by addBlock calls the Ledger's mined-coin
\* counter is at most the mining cap of 3,000,000 coins.
C1_MinedCounterWithinCap == totalMinedCoins <= MaxMinableCoins

\* C2: under concurrent addMinedCoins calls with non-negative amounts the
\* MiningManager's total never exceeds the cap; an add that would pass the
\* cap leaves the total exactly at the cap; once at the cap it stays there.
C2_AddMinedCoinsSaturates ==
  /\ [](totalMinedCoins_ <= MaxMinableCoins)
  /\ [][\A t \in Threads :
          (mpc[t] = "am_update" /\ mpc'[t] = "am_exit"
           /\ totalMinedCoins_ + mamount[t] > MaxMinableCoins)
          => totalMinedCoins_' = MaxMinableCoins]_vars
  /\ [][totalMinedCoins_ = MaxMinableCoins
          => totalMinedCoins_' = MaxMinableCoins]_vars

\* C2 witness: an add that passed the cap has clamped the total while the
\* other thread is blocked inside its own addMinedCoins call
C2_Witness ==
  \E t \in Threads, u \in Threads :
    /\ t # u
    /\ mpc[t] = "am_exit"
    /\ 0 < mcurrent[t] /\ mcurrent[t] < MaxMinableCoins
    /\ mcurrent[t] + mamount[t] > MaxMinableCoins
    /\ totalMinedCoins_ = MaxMinableCoins
    /\ mpc[u] = "am_wait"

TransferFinished(t) == loutcome[t] \in {"tr_done", "tr_fault"}

C4_StoresDisjoint == DOMAIN balances \cap DOMAIN hiddenBalances = {}

\* C5: of concurrent spendUTXO calls on one key (no addUTXO of the key in
\* between) at most one returns true, and once one has returned true no
\* getUTXO, getAddressUTXOs or getBalance observes the output.
C5_SpentOnceAndGone ==
  /\ \A k \in UKeys : uhist[k] <= 1
  /\ \A t \in Threads :
       upc[t] = "rd_exit" => \A k \in uop[t].seen : uhist[k] = 0

\* C5 witness: after a successful spend of a key, a second spend of it has
\* failed and the other thread's read of it is waiting for the lock
C5_Witness ==
  \E t \in Threads, u \in Threads :
    /\ t # u
    /\ upc[t] = "sp_exit" /\ ures[t] = FALSE
    /\ uhist[uop[t].key] = 1
    /\ upc[u] = "wait"

\* C6: spendUTXO of a key that is not in the set returns false and leaves
\* both indexes (so every balance and the output count) as they were.
C6_FailedSpendChangesNothing ==
  \A t \in Threads :
    (upc[t] = "sp_exit" /\ uop[t].key \notin DOMAIN uop[t].before[1])
    => /\ ures[t] = FALSE
       /\ <<utxos_, addressUtxos_>> = uop[t].before
       /\ Cardinality(DOMAIN utxos_) = Cardinality(DOMAIN uop[t].before[1])

\* C6 witness: a spend of an already spent key has failed
C6_Witness ==
  \E t \in Threads :
    /\ upc[t] = "sp_exit" /\ ures[t] = FALSE
    /\ uhist[uop[t].key] = 1
    /\ uop[t].key = UKey(GenesisTxid, 0)

\* C7: after addUTXO(u) the balance of u.address is larger than before by
\* exactly u.amount; after a successful spendUTXO of an output it is absent
\* from getAddressUTXOs of its owner, whose balance is smaller by its amount.
C7_RoundTrip ==
  \A t \in Threads :
    /\ upc[t] = "au_exit" =>
         UTXOBalance(uop[t].address) = uop[t].balanceBefore + uop[t].amount
    /\ (upc[t] = "sp_exit" /\ ures[t] = TRUE) =>
         /\ uop[t].key \notin getAddressUTXOs(uop[t].address)
         /\ UTXOBalance(uop[t].address)
              = uop[t].balanceBefore - uop[t].amount

\* the inputs of vin that are in the set, and the sum of their amounts
AllInputsPresent(vin) == \A i \in 1..Len(vin) : vin[i] \in DOMAIN utxos_
InputAmounts(vin) == [i \in 1..Len(vin) |-> utxos_[vin[i]].amount]

\* C8: validateInputs(tx) returns true exactly when every input references
\* an output in the set and the input amounts sum to at least the output
\* amounts; it never changes the set.
C8_ValidateInputsExact ==
  upc["t1"] = "vi_exit" =>
    /\ ures["t1"] = (/\ AllInputsPresent(uop["t1"].vin)
                     /\ SeqSum(InputAmounts(uop["t1"].vin))
                          >= SeqSum(uop["t1"].vout))
    /\ <<utxos_, addressUtxos_>> = uop["t1"].before

\* C8 witness: a transaction with two inputs whose amounts equal its outputs
\* has been accepted
C8_Witness ==
  /\ upc["t1"] = "vi_exit"
  /\ ures["t1"] = TRUE
  /\ Len(uop["t1"].vin) = 2
  /\ uop["t1"].vout # <<>>
  /\ uop["t1"].inputSum = SeqSum(uop["t1"].vout)

PublicSender(t) == lop[t].from \notin DOMAIN lsnap[2]

C10_HiddenSenderRefusedSilently ==
  \A t \in Threads :
    lpc[t] = "tr_exit" =>
      LET from == lop[t].from
          hiddenUnauthenticated ==
            /\ from \in DOMAIN lsnap[2]
            /\ ~authenticateUser(from, lop[t].privateKey)
          nonExistent == from \notin (DOMAIN lsnap[1] \cup DOMAIN lsnap[2])
      IN (hiddenUnauthenticated \/ nonExistent) =>
           /\ lres[t] = FALSE
           /\ <<balances, hiddenBalances>> = lsnap

\* C10 witness: the founder's funded transfer with an empty key was refused
C10_Witness ==
  \E t \in Threads :
    /\ lpc[t] = "tr_exit"
    /\ lop[t].from = founderStealthAddress
    /\ lop[t].privateKey = EmptyToken
    /\ lop[t].to = "alice"
    /\ lop[t].amount > 0 /\ lop[t].amount <= lsnap[2][founderStealthAddress]
    /\ lres[t] = FALSE

GetBalanceDone(t) == lpc[t] = "gb_exit" /\ lop[t].name = "getBalance"

C12_AuthenticationRule ==
  \A t \in Threads :
    GetBalanceDone(t) =>
      LET account == lop[t].account
          authToken == lop[t].authToken
          authenticated == lres[t] # Absent
      IN /\ authToken = EmptyToken => ~authenticated
         /\ account \notin DOMAIN hiddenBalances
              => (authenticated <=> authToken = MarkedToken)
         /\ (account = founderStealthAddress /\ authToken # EmptyToken)
              => authenticated

\* C12 amended: the same rule for non-empty account names; the empty account
\* name authenticates with no token at all.
C12_AuthenticationRuleNonEmpty ==
  \A t \in Threads :
    GetBalanceDone(t) =>
      LET account == lop[t].account
          authToken == lop[t].authToken
          authenticated == lres[t] # Absent
      IN /\ authToken = EmptyToken => ~authenticated
         /\ account = "" => ~authenticated
         /\ (account \notin DOMAIN hiddenBalances /\ account # "")
              => (authenticated <=> authToken = MarkedToken)
         /\ (account = founderStealthAddress /\ authToken # EmptyToken)
              => authenticated

\* C12 witness: a balance query for the empty account name with a token
\* that contains the marker has returned absence
C12_Witness ==
  \E t \in Threads :
    /\ GetBalanceDone(t)
    /\ lop[t].account = ""
    /\ lop[t].authToken = MarkedToken
    /\ lres[t] = Absent

\* a block that fails validation: orphaned, or (unless it names a genesis
\* predecessor) its hash misses the difficulty target or one of its
\* transactions does not verify
FailsValidation(block) ==
  \/ block.isOrphaned
  \/ /\ ~IsGenesisPrev(block.prevHash)
     /\ \/ ~MeetsTarget(block.hash, block.difficulty)
        \/ \E i \in 1..Len(block.transactions) :
             ~verify(block.transactions[i])

C14_AcceptedBlockAppended ==
  /\ [][\A t \in Threads :
          (lpc[t] = "ab_validate" /\ lpc'[t] # "ab_validate"
           /\ ~FailsValidation(lop[t].block))
          => /\ lpc'[t] = "ab_count"
             /\ chain' = Append(chain, lop[t].block)]_vars
  /\ [][chain' # chain =>
          \E t \in Threads :
            /\ lpc[t] = "ab_validate"
            /\ ~FailsValidation(lop[t].block)
            /\ chain' = Append(chain, lop[t].block)]_vars
  /\ [](\A t \in Threads :
         (lpc[t] = "ab_exit" /\ lres[t] # FALSE)
         => /\ lres[t] = TRUE
            /\ chain = Append(lop[t].chainBefore, lop[t].block)
            /\ totalMinedCoins
                 = lop[t].minedBefore + lop[t].block.reward)

\* C14 witness: a second block, with a transaction that is still valid after
\* one tick of the clock, has been appended
C14_Witness ==
  \E t \in Threads :
    /\ lpc[t] = "ab_exit" /\ lres[t] = TRUE
    /\ lop[t].block.transactions = <<GoodTx>>
    /\ now > 0
    /\ Len(chain) = ActiveShards + 2
    /\ totalMinedCoins = 2000000 + 50

\* the bytes of the transactions the pool holds
RECURSIVE PoolBytes(_)
PoolBytes(pool) ==
  IF DOMAIN pool = {} THEN 0
  ELSE LET k == CHOOSE x \in DOMAIN pool : TRUE
       IN pool[k].tx.size + PoolBytes(MapErase(pool, k))

\* C15: in every state reachable by addTransaction and removeTransaction
\* calls the bytes held in the pool, and the value getBytes reports, are at
\* most maxSize.
C15_PoolWithinCap ==
  /\ PoolBytes(transactions_) <= maxSize_
  /\ currentSize_ <= maxSize_
  /\ mlast.op = "getBytes" => mlast.result <= maxSize_

\* C16: addTransaction of a transaction whose id is in the pool returns
\* false and leaves entries, byte size and fee index as they were; every
\* entry is filed under its own id, so no id is held twice.
C16_DuplicateRejected ==
  /\ (mlast.op = "addTransaction"
      /\ mlast.tx.txid \in DOMAIN mlast.before[1])
     => /\ mlast.result = FALSE
        /\ PoolState = mlast.before
  /\ \A k \in DOMAIN transactions_ : transactions_[k].tx.txid = k

\* C16 witness: a second transaction with the id of a pooled one, which the
\* byte cap would have made room for by eviction, has been refused
C16_Witness ==
  /\ mlast.op = "addTransaction"
  /\ mlast.result = FALSE
  /\ mlast.tx = MempoolTx("a", 1, 1, 1, 1)
  /\ "a" \in DOMAIN transactions_
  /\ transactions_["a"].tx = MempoolTx("a", 2, 2, 1, 2)
  /\ currentSize_ + mlast.tx.size > maxSize_

TemplateWeights(r) == [i \in 1..Len(r) |-> r[i].weight]

AdmittedAt(txid) ==
  CHOOSE i \in 1..Len(madmitted) :
    /\ madmitted[i] = txid
    /\ \A j \in (i + 1)..Len(madmitted) : madmitted[j] # txid

\* C18: in the list getBlockTemplate returns, of two transactions with the
\* same fee rate the one that addTransaction admitted earlier comes first.
C18_TiesByInsertionOrder ==
  mlast.op = "getBlockTemplate" =>
    LET r == mlast.result IN
    \A i, j \in 1..Len(r) :
      (i < j /\ r[i].fee * r[j].vsize = r[j].fee * r[i].vsize)
      => AdmittedAt(r[i].txid) < AdmittedAt(r[j].txid)

\* C19: adjustCoinPrice returns at least the minimum price of 600,000 for
\* every finite price p >= 0, every height and every shard, and a finite
\* value also where the product leaves the range of the doubles.
C19_PriceFloor ==
  lastPrice.called =>
    /\ lastPrice.result >= 600000
    /\ lastPrice.result <= DblMax \div 2

\* C19 witness: the largest finite price at a height whose growth factor
\* takes it out of the range came back as half the largest finite value
C19_Witness ==
  /\ lastPrice.called
  /\ lastPrice.currentPrice = DblMax
  /\ lastPrice.blockHeight = 999999
  /\ lastPrice.result = DblMax \div 2

\* the value the claim gives for one call: 50 / 2^(h div 210000) down to
\* the sixteenth halving, 0.0005 from the seventeenth on
RewardAsStated(call) ==
  LET k == call.blockHeight \div 210000 IN
  /\ k <= 16 => call.result[1] * Pow2(k) = 50 * call.result[2]
  /\ k > 16 => call.result[1] * 10000 = 5 * call.result[2]
  /\ call.result[1] * 10000 >= 5 * call.result[2]
  /\ call.blockHeight = 0 => call.result[1] = 50 * call.result[2]
  /\ call.blockHeight = 210000 => call.result[1] = 25 * call.result[2]
  /\ call.blockHeight = 420000 => 2 * call.result[1] = 25 * call.result[2]

\* C20: calculateBlockReward(h) is max(50 / 2^(h div 210000), 0.0005) for
\* every height h, in the Blockchain and in the MiningManager alike, and is
\* never below the minimum reward.
C20_BlockReward ==
  /\ ledgerReward.called => RewardAsStated(ledgerReward)
  /\ miningReward.called => RewardAsStated(miningReward)
  /\ (ledgerReward.called /\ miningReward.called
      /\ ledgerReward.blockHeight = miningReward.blockHeight)
     => FracEq(ledgerReward.result, miningReward.result)

\* C20 witness: both implementations were asked for the last height before
\* the seventeenth halving and for it gave 50 / 2^16
C20_Witness ==
  /\ ledgerReward.called /\ miningReward.called
  /\ ledgerReward.blockHeight = 17 * 210000 - 1
  /\ miningReward.blockHeight = 17 * 210000 - 1
  /\ ledgerReward.result = <<50, 65536>>
  /\ miningReward.result = <<50, 65536>>

\* the change of difficulty the ratio r = actual / target asks for
StatedDifficultyChange(actual, target) ==
  LET below(num, den) == IF target > 0 THEN actual * den < num * target
                         ELSE actual * den > num * target
      above(num, den) == IF target > 0 THEN actual * den > num * target
                         ELSE actual * den < num * target
  IN  IF below(1, 2) THEN 2
      ELSE IF below(4, 5) THEN 1
      ELSE IF above(2, 1) THEN -2
      ELSE IF above(3, 2) THEN -1
      ELSE 0

ClampDifficulty(d) ==
  IF d < MIN_DIFFICULTY THEN MIN_DIFFICULTY
  ELSE IF d > MAX_DIFFICULTY THEN MAX_DIFFICULTY ELSE d

\* C21 as stated: adjustDifficulty(actual, target) with r = actual / target
\* raises the difficulty by 2 when r < 0.5, by 1 when 0.5 <= r < 0.8, lowers
\* it by 2 when r > 2.0, by 1 when 1.5 < r <= 2.0, leaves it otherwise, and
\* clamps the result to [1, 512]; the difficulty is always within the range.
C21_DifficultyRule ==
  /\ currentDifficulty_ \in MIN_DIFFICULTY..MAX_DIFFICULTY
  /\ (dlast.called /\ dlast.targetBlockTime # 0) =>
       currentDifficulty_ =
         ClampDifficulty(dlast.before
                         + StatedDifficultyChange(dlast.actualBlockTime,
                                                  dlast.targetBlockTime))

\* C21 amended: the rule holds for a positive target block time; a call with
\* a target of zero or less leaves the difficulty as it was; the difficulty
\* is always within [MIN_DIFFICULTY, MAX_DIFFICULTY].
C21_DifficultyRulePositiveTarget ==
  /\ currentDifficulty_ \in MIN_DIFFICULTY..MAX_DIFFICULTY
  /\ (dlast.called /\ dlast.targetBlockTime > 0) =>
       currentDifficulty_ =
         ClampDifficulty(dlast.before
                         + StatedDifficultyChange(dlast.actualBlockTime,
                                                  dlast.targetBlockTime))
  /\ (dlast.called /\ dlast.targetBlockTime <= 0) =>
       currentDifficulty_ = dlast.before

\* C21 witness: a raise by 2 asked for at difficulty 511 was clamped to 512
C21_Witness ==
  /\ dlast.called
  /\ dlast.before = MAX_DIFFICULTY - 1
  /\ dlast.targetBlockTime > 0
  /\ 2 * dlast.actualBlockTime < dlast.targetBlockTime
  /\ currentDifficulty_ = MAX_DIFFICULTY

\* C21 counterexample: a fast block against a negative target, ratio below
\* 0.5, left the difficulty where it was
C21_NegativeTargetIgnored ==
  /\ dlast.called
  /\ dlast.targetBlockTime < 0
  /\ dlast.actualBlockTime > 0
  /\ currentDifficulty_ = dlast.before
  /\ dlast.before < MAX_DIFFICULTY

\* the hash of (data, n) starts with `difficulty` zero characters
StartsWithZeros(data, n, shardId, difficulty) ==
  LET hash == generateHash(data, n, shardId)
  IN  \A k \in 1..difficulty : k <= Len(hash) /\ hash[k] = "0"

\* the nonces below the attempt cap that qualify for the call under way
QualifyingNonces ==
  {n \in 0..(MAX_NONCE_ATTEMPTS - 1) :
     StartsWithZeros(bcall.data, n, bcall.shardId, bcall.difficulty)}

\* mineBlock has decided what it returns
MineBlockDecided == bpc = "mb_unlock"

C24_RewardCreditedToLedgerCounter ==
  (bpc = "done" /\ bcall.via = "Block::mine") =>
    IF bresult
    THEN totalMinedCoins =
           (IF bcall.ledgerBefore + bcall.reward > MaxMinableCoins
            THEN MaxMinableCoins ELSE bcall.ledgerBefore + bcall.reward)
    ELSE /\ totalMinedCoins = bcall.ledgerBefore
         /\ totalMinedCoins_ = bcall.managerBefore
         /\ (bcall.managerBefore >= MaxMinableCoins => btries = 0)

\* C24, the part that holds: the reward goes to the MiningManager's counter
C24_RewardCreditedToManagerCounter ==
  (bpc = "done" /\ bcall.via = "Block::mine") =>
    /\ totalMinedCoins = bcall.ledgerBefore
    /\ IF bresult
       THEN totalMinedCoins_ =
              (IF bcall.managerBefore + bcall.reward > MaxMinableCoins
               THEN MaxMinableCoins ELSE bcall.managerBefore + bcall.reward)
       ELSE /\ totalMinedCoins_ = bcall.managerBefore
            /\ (bcall.managerBefore >= MaxMinableCoins => btries = 0)

\* C24: Block::mine refuses at the limit while the Ledger's checkMiningLimit,
\* which reads a counter that is still zero, says that mining is open
C24_LimitsDisagree ==
  /\ bpc = "done"
  /\ bcall.via = "Block::mine"
  /\ ~bresult
  /\ btries = 0
  /\ totalMinedCoins_ = MaxMinableCoins
  /\ getTotalMinedCoins < MaxMinableCoins

\* the first `difficulty` characters of the block's hash are all '0'
HashHasLeadingZeros(block) ==
  \A k \in 1..block.difficulty :
    k <= Len(block.hash) /\ block.hash[k] = "0"

\* what a transaction needs in order to verify
TransactionChecks(tx) ==
  /\ now <= tx.expiresAt
  /\ tx.signature \in {"hmac_v11_", "signed_v11_"}
  /\ tx.zkProof = "zk_proof_v11_"
  /\ Len(tx.multiSignatures) >= RequiredSignatures

\* the blocks that are on the chain or may be handed to addBlock
KnownBlocks == Blocks \union {chain[i] : i \in 1..Len(chain)}

C25_FreshLedger ==
  /\ Len(chain) >= 16
  /\ \A shard \in 0..15 :
       \E i \in 1..Len(chain) :
         /\ chain[i].shardId = shard
         /\ chain[i].prevHash[1] = "genesis_"
  /\ validateChain
  /\ checkMiningLimit
  /\ totalMinedCoins = 0
  /\ DOMAIN balances = {}
  /\ \E address \in DOMAIN hiddenBalances :
       /\ DOMAIN hiddenBalances = {address}
       /\ hiddenBalances[address] = 2000000
  /\ [](/\ Len(chain) >= 16
        /\ \A i \in 1..16 : /\ chain[i].shardId = i - 1
                            /\ chain[i].prevHash[1] = "genesis_")

\* C25 witness: the ledger as its constructor leaves it, before any call
C25_Witness ==
  /\ Len(chain) = ActiveShards
  /\ \A i \in 1..ActiveShards : validate(chain[i])
  /\ \A t \in Threads : lpc[t] = "idle" /\ loutcome[t] = "none"
  /\ totalMinedCoins = 0
  /\ hiddenBalances[founderStealthAddress] = PreminedCoins
  /\ now = 0

\* hash(id) mod shardCount
HashModShardCount(dataId) == StdHashId(dataId) % 16

\* what assignShard records and what getShardForData returns
ShardBookkeeping ==
  /\ shlast.op = "assignShard" =>
       /\ DOMAIN shardAssignments_ =
            DOMAIN shlast.assignmentsBefore \union {shlast.dataId}
       /\ shardAssignments_[shlast.dataId] =
            (IF 0 <= shlast.shardId /\ shlast.shardId < 16
             THEN shlast.shardId ELSE HashModShardCount(shlast.dataId))
       /\ \A other \in DOMAIN shlast.assignmentsBefore \ {shlast.dataId} :
            shardAssignments_[other] = shlast.assignmentsBefore[other]
  /\ shlast.op = "getShardForData" =>
       shlast.result =
         (IF shlast.dataId \in DOMAIN shardAssignments_
          THEN shardAssignments_[shlast.dataId]
          ELSE HashModShardCount(shlast.dataId))

OutOfRangeAssignment ==
  /\ shlast.op = "assignShard"
  /\ ~(0 <= shlast.shardId /\ shlast.shardId < 16)

\* C27 as stated: assignShard(id, requested) records requested when it is in
\* [0, shardCount) and hash(id) mod shardCount otherwise; getShardForData
\* returns the recorded assignment, or hash(id) mod shardCount when there is
\* none; after an assignment with an out-of-range request getShardForData
\* returns what it returned before.
C27_ShardAssignment ==
  /\ ShardBookkeeping
  /\ OutOfRangeAssignment =>
       ShardForData(shardAssignments_, shlast.dataId) = shlast.shardBefore

\* C27 amended: the same recording and lookup rule; an out-of-range request
\* leaves getShardForData(id) as it was when no assignment was recorded for
\* id before, and otherwise replaces the recorded shard by hash(id) mod
\* shardCount.
C27_ShardAssignmentFirstRequest ==
  /\ ShardBookkeeping
  /\ OutOfRangeAssignment =>
       /\ ShardForData(shardAssignments_, shlast.dataId) =
            HashModShardCount(shlast.dataId)
       /\ shlast.dataId \notin DOMAIN shlast.assignmentsBefore =>
            ShardForData(shardAssignments_, shlast.dataId) = shlast.shardBefore

\* C27 witness: an id that had no assignment was assigned with the request 16
\* and is now recorded at hash(id) mod 16 = 5
C27_Witness ==
  /\ shlast.op = "assignShard"
  /\ shlast.dataId = "d1"
  /\ shlast.shardId = 16
  /\ shlast.dataId \notin DOMAIN shlast.assignmentsBefore
  /\ shardAssignments_["d1"] = 5
  /\ shlast.shardBefore = 5

\* C27 counterexample: an id recorded at shard 3 was assigned again with an
\* out-of-range request and getShardForData changed from 3 to 5
C27_ReassignmentMovesShard ==
  /\ OutOfRangeAssignment
  /\ shlast.dataId = "d1"
  /\ shlast.shardBefore = 3
  /\ ShardForData(shardAssignments_, "d1") = 5

\* C28: validateShard(s) is true exactly when 0 <= s < 16, so 0 and 15 are
\* valid and -1 and 16 are not; every recorded assignment and every value
\* getShardForData returns satisfies validateShard.
C28_ShardsInRange ==
  /\ validateShard(0) /\ validateShard(15)
  /\ ~validateShard(-1) /\ ~validateShard(16)
  /\ shlast.op = "validateShard" =>
       (shlast.result <=> (0 <= shlast.shardId /\ shlast.shardId < 16))
  /\ \A dataId \in DOMAIN shardAssignments_ :
       validateShard(shardAssignments_[dataId])
  /\ shlast.op = "getShardForData" => validateShard(shlast.result)
  /\ \A dataId \in DataIds :
       validateShard(ShardForData(shardAssignments_, dataId))

\* C28 witness: with one id recorded through the fallback of a request of
\* 2048 and the other at the last shard, a lookup returned shard 15
C28_Witness ==
  /\ shlast.op = "getShardForData"
  /\ shlast.result = 15
  /\ DOMAIN shardAssignments_ = DataIds
  /\ shardAssignments_["d1"] = 5
  /\ shardAssignments_["d2"] = 15

\* the last construction was given one of the malformed inputs
MalformedInput ==
  \/ txlast.sender = <<>> \/ txlast.receiver = <<>>
  \/ (~txlast.amount.nan /\ txlast.amount.v <= 0)
  \/ (~txlast.fee.nan /\ txlast.fee.v < 0)
  \/ \E i \in 1..Len(txlast.sender) : txlast.sender[i] \in {";", "<"}
  \/ \E i \in 1..Len(txlast.receiver) : txlast.receiver[i] \in {";", "<"}
  \/ (~txlast.amount.nan /\ txlast.amount.v > DblMax \div 2)
  \/ (~txlast.fee.nan /\ txlast.fee.v > DblMax \div 2)
  \/ Len(txlast.multiSignatures) < 10
  \/ preventDataLeak(TxData(txlast.sender, txlast.receiver, txlast.amount,
                            txlast.fee, txlast.shardId))

\* a malformed input fails, a failure records nothing, an anomaly alone
\* does not fail
ConstructionChecks ==
  txlast.called =>
    /\ MalformedInput => txlast.outcome # "constructed"
    /\ txlast.outcome # "constructed" =>
         shardAssignments_ = txlast.assignmentsBefore
    /\ (txlast.anomaly /\ ~MalformedInput
        /\ validateMultiSignature(txlast.multiSignatures)) =>
         txlast.outcome = "constructed"
    /\ txlast.outcome = "constructed" =>
         txlast.txId \in DOMAIN shardAssignments_

\* C26: construction of a Transaction fails with an error for an empty
\* sender or receiver, amount <= 0, fee < 0, a ';' or '<' in sender or
\* receiver, amount or fee above half the numeric maximum, fewer than 10
\* co-signatures or a detected data leak; a failed construction records no
\* shard assignment; an anomaly alone does not fail it; every constructed
\* transaction has amount > 0, fee >= 0 and at least 10 co-signatures.
C26_ConstructionValidates ==
  /\ ConstructionChecks
  /\ (txlast.called /\ txlast.outcome = "constructed") =>
       /\ ~txlast.amount.nan /\ txlast.amount.v > 0
       /\ ~txlast.fee.nan /\ txlast.fee.v >= 0
       /\ Len(txlast.multiSignatures) >= 10

\* C26, the part that holds: the checks as listed, and for amounts and fees
\* that are numbers the invariant of a constructed transaction
C26_ConstructionValidatesNumbers ==
  /\ ConstructionChecks
  /\ (txlast.called /\ txlast.outcome = "constructed") =>
       /\ ~txlast.amount.nan => txlast.amount.v > 0
       /\ ~txlast.fee.nan => txlast.fee.v >= 0
       /\ Len(txlast.multiSignatures) >= 10

\* C26: a transaction whose amount is NaN was constructed and assigned
C26_NaNAmountConstructed ==
  /\ txlast.called
  /\ txlast.outcome = "constructed"
  /\ txlast.amount.nan
  /\ txlast.txId \in DOMAIN shardAssignments_

\* C26: an anomalous but otherwise well-formed transaction was constructed
C26_AnomalyAlone ==
  /\ txlast.called
  /\ txlast.anomaly
  /\ ~txlast.amount.nan /\ ~txlast.fee.nan
  /\ txlast.outcome = "constructed"

\* applyUpdate with non-empty data raised the patch number by one, and with
\* empty data changed nothing
UpdateRaisesPatch ==
  uplast.op = "applyUpdate" =>
    IF uplast.updateData # ""
    THEN currentVersion_ = <<uplast.versionBefore[1], uplast.versionBefore[2],
                             uplast.versionBefore[3] + 1>>
    ELSE currentVersion_ = uplast.versionBefore

\* C29: applyUpdate with non-empty data raises the patch number by one;
\* rollback restores the version that was current immediately before the
\* most recent update that has not been rolled back, from any reachable
\* state; rollback with no previous version returns false and changes
\* nothing.
C29_RollbackRestoresPrevious ==
  /\ UpdateRaisesPatch
  /\ uplast.op = "rollback" =>
       IF uplast.pendingBefore = <<>>
       THEN /\ ~uplast.result
            /\ currentVersion_ = uplast.versionBefore
            /\ versionHistory_ = uplast.historyBefore
       ELSE /\ uplast.result
            /\ currentVersion_ =
                 uplast.pendingBefore[Len(uplast.pendingBefore)]

\* C29, the part that holds: the patch number goes up by one; rollback
\* returns false and changes nothing exactly when the history holds one
\* entry, and otherwise drops the last entry and makes the entry before it
\* the current version.
C29_RollbackTakesEntryBeforeLast ==
  /\ UpdateRaisesPatch
  /\ uplast.op = "rollback" =>
       IF Len(uplast.historyBefore) <= 1
       THEN /\ ~uplast.result
            /\ currentVersion_ = uplast.versionBefore
            /\ versionHistory_ = uplast.historyBefore
       ELSE /\ uplast.result
            /\ currentVersion_ =
                 uplast.historyBefore[Len(uplast.historyBefore) - 1]

\* C29: after the updates 7.0.0 -> 7.0.1 -> 7.0.2 a rollback went to 7.0.0
C29_RollbackSkipsVersion ==
  /\ uplast.op = "rollback"
  /\ uplast.result
  /\ uplast.versionBefore = <<7, 0, 2>>
  /\ uplast.pendingBefore = << <<7, 0, 0>>, <<7, 0, 1>> >>
  /\ currentVersion_ = <<7, 0, 0>>

\* C30: validateSession(id, ip) returns the session, with the id of the user
\* who created it, only when a session with that id exists, ip is the
\* address it was created from and it has not timed out; a validation from
\* another address returns absence; after destroySession(id) every
\* validateSession(id, any ip) returns absence.
C30_SessionValidation ==
  selast.op = "validateSession" =>
    LET id == selast.sessionId
    IN  /\ selast.result # Absent =>
             /\ selast.found # Absent
             /\ id \in DOMAIN sissued
             /\ selast.ip = sissued[id].ip
             /\ \A found \in selast.found :
                  selast.time - found.lastActivity <= 3600
             /\ \A session \in selast.result :
                  session.userId = sissued[id].userId
        /\ (id \in DOMAIN sissued /\ selast.ip # sissued[id].ip) =>
             selast.result = Absent
        /\ id \in sdestroyed => selast.result = Absent

\* C30 witness: a session that was destroyed was refused from the address
\* that created it, before the timeout that began with its creation ended
C30_Witness ==
  /\ selast.op = "validateSession"
  /\ selast.sessionId \in sdestroyed
  /\ selast.sessionId \in DOMAIN sissued
  /\ selast.ip = sissued[selast.sessionId].ip
  /\ selast.result = Absent
  /\ selast.time > sissued[selast.sessionId].at
  /\ selast.time - sissued[selast.sessionId].at <= SESSION_TIMEOUT_SECONDS

\* the call of t is inside the section its ReentrancyGuard protects
GuardedAddBlock(t) == lpc[t] \in {"ab_validate", "ab_count", "ab_exit"}
GuardedTransfer(t) ==
  lpc[t] \in {"tr_check", "tr_credit_hidden", "tr_credit_public", "tr_exit"}

\* the guard of t's call finds the flag set and throws
RejectedByGuard(t) ==
  \/ lpc[t] = "ab_guard" /\ isAddingBlock /\ lpc'[t] = "idle"
  \/ lpc[t] = "tr_guard" /\ isTransferring /\ lpc'[t] = "idle"

\* C31: every exit of addBlock and of transfer (return of true, return of
\* false, exception out of the guarded section) clears the operation's
\* reentrancy flag: the flag is set exactly while a call is inside the guarded
\* section, so it is false whenever no call of the operation is in flight; no
\* call is rejected as reentrant unless it overlapped another call of the
\* operation; and a rejected call leaves both flags as they were.
C31_GuardReleasedOnEveryExit ==
  /\ [](isAddingBlock <=> \E t \in Threads : GuardedAddBlock(t))
  /\ [](isTransferring <=> \E t \in Threads : GuardedTransfer(t))
  /\ []((\A t \in Threads : ~InAddBlock(t)) => ~isAddingBlock)
  /\ []((\A t \in Threads : ~InTransfer(t)) => ~isTransferring)
  /\ [](\A t \in Threads :
          loutcome[t] \in {"ab_fault", "tr_fault"} => loverlap[t])
  /\ [][\A t \in Threads :
          RejectedByGuard(t) =>
            /\ isAddingBlock' = isAddingBlock
            /\ isTransferring' = isTransferring]_vars

\* one caller's addBlock left by the exception of Block::validate; the other
\* caller's addBlock, begun when no addBlock was in flight, has passed the
\* guard and appended its block
C31_Witness ==
  /\ loutcome["t1"] \in {"ab_thrown"}
  /\ lpc["t1"] = "idle"
  /\ lpc["t2"] = "ab_count"
  /\ ~loverlap["t2"]
  /\ isAddingBlock
  /\ ~isTransferring

\* the call of t is at a lock operation that cannot return now
LockBlocked(t) ==
  /\ kcall[t] # "idle"
  /\ kip[t] <= Len(LockProgram(kcall[t]))
  /\ NextLockOp(t)[1] \in {"lock", "lock_shared"}
  /\ ~LockAvailable(t, NextLockOp(t))

\* t holds mutex a and took, or is about to take, mutex b after it
TakesAfter(t, a, b) ==
  \/ \E i, j \in 1..Len(kheld[t]) :
       i < j /\ kheld[t][i][2] = a /\ kheld[t][j][2] = b
  \/ /\ HoldsMutex(t, a)
     /\ kcall[t] # "idle"
     /\ kip[t] <= Len(LockProgram(kcall[t]))
     /\ NextLockOp(t)[1] \in {"lock", "lock_shared"}
     /\ NextLockOp(t)[2] = b

\* C32: concurrent calls of the Ledger, the UTXOSet, the Mempool, the
\* MiningManager and the ShardingManager never reach a state in which every
\* call under way waits for a lock; no two threads take two mutexes in
\* opposite orders and no thread takes a mutex it holds; and every call that
\* began returns.
C32_DeadlockFree ==
  /\ []((\E t \in Threads : kcall[t] # "idle")
          => \E t \in Threads : kcall[t] # "idle" /\ ~LockBlocked(t))
  /\ [](\A t, u \in Threads : \A a, b \in Mutexes :
          ~(TakesAfter(t, a, b) /\ TakesAfter(u, b, a)))
  /\ \A t \in Threads : (kcall[t] # "idle") ~> (kcall[t] = "idle")

\* C32 witness: addBlock holds the chain's lock and the CryptoManager's
\* inside it while a transfer of the other thread waits for the chain's lock
C32_Witness ==
  /\ kcall["t1"] = "addBlock"
  /\ kheld["t1"] = <<Lock("chainMutex"), Lock("cryptoMutex_")>>
  /\ kcall["t2"] = "transfer"
  /\ LockBlocked("t2")
  /\ kdone["t2"] = 1

\* the last call was an addTransaction that admitted its transaction
Admitted == mlast.op = "addTransaction" /\ mlast.result = TRUE

\* the entries that call evicted, and the entries it found and left
EvictedIds == DOMAIN mlast.before[1] \ DOMAIN transactions_
KeptIds == DOMAIN mlast.before[1] \cap DOMAIN transactions_

\* the pool mlast.before[1] without the entries of ids
PoolWithout(ids) ==
  [x \in DOMAIN mlast.before[1] \ ids |-> mlast.before[1][x]]

\* C33: an addTransaction that would exceed the byte-size cap evicts in
\* ascending fee-rate order and stops as soon as there is room: no evicted
\* entry has a higher fee rate than an entry that stays, no eviction happens
\* when the bytes held before the call, or the bytes left after taking out
\* all evicted entries but one, already leave room for the transaction, the
\* evicted entries are gone from the pool, and the transaction is admitted.
C33_EvictionStopsWhenRoom ==
  Admitted =>
    /\ \A e \in EvictedIds, k \in KeptIds :
         ~(mlast.before[1][e].feeRate > mlast.before[1][k].feeRate)
    /\ \A e \in EvictedIds :
         PoolBytes(PoolWithout(EvictedIds \ {e})) + mlast.tx.size > maxSize_
    /\ mlast.tx.txid \in DOMAIN transactions_
    /\ transactions_[mlast.tx.txid].tx = mlast.tx

\* what the code does: evictLowFeeTxs runs when the counter currentSize_
\* (not the bytes held) plus the size passes the cap, takes entries in
\* ascending fee-rate order until the bytes taken reach the size of the new
\* transaction, and the transaction is admitted
C33_EvictsUntilSizeFreed ==
  Admitted =>
    /\ \A e \in EvictedIds, k \in KeptIds :
         ~(mlast.before[1][e].feeRate > mlast.before[1][k].feeRate)
    /\ EvictedIds # {} => mlast.before[2] + mlast.tx.size > maxSize_
    /\ \A e \in EvictedIds :
         PoolBytes(mlast.before[1]) - PoolBytes(PoolWithout(EvictedIds \ {e}))
           < mlast.tx.size
    /\ KeptIds # {} =>
         (mlast.before[2] + mlast.tx.size > maxSize_ =>
            PoolBytes(mlast.before[1]) - PoolBytes(PoolWithout(EvictedIds))
              >= mlast.tx.size)
    /\ mlast.tx.txid \in DOMAIN transactions_
    /\ transactions_[mlast.tx.txid].tx = mlast.tx

\* an entry was evicted although the bytes held and the new transaction
\* together were within the cap
C33_EvictedWithRoom ==
  /\ Admitted
  /\ EvictedIds # {}
  /\ PoolBytes(mlast.before[1]) + mlast.tx.size <= maxSize_

\* C37: in every state reachable by addTransaction and removeTransaction
\* calls the byte counter, which is the value getBytes returns, equals the
\* sum of the sizes of the transactions in the pool, and is 0 when the pool
\* is empty.
C37_ByteAccounting ==
  /\ currentSize_ = PoolBytes(transactions_)
  /\ mlast.op = "getBytes" => mlast.result = PoolBytes(mlast.before[1])
  /\ DOMAIN transactions_ = {} => currentSize_ = 0

\* what the code keeps: the counter is never below the bytes held, and
\* getBytes returns the counter
C37_CounterAtLeastBytes ==
  /\ currentSize_ >= PoolBytes(transactions_)
  /\ mlast.op = "getBytes" => mlast.result = mlast.before[2]

\* getBytes has returned a non-zero size for an empty pool
C37_EmptyPoolReportsBytes ==
  /\ mlast.op = "getBytes"
  /\ DOMAIN transactions_ = {}
  /\ mlast.result > 0

\* the balances of all addresses, summed
RECURSIVE BalanceSum(_)
BalanceSum(addresses) ==
  IF addresses = {} THEN 0
  ELSE LET a == CHOOSE x \in addresses : TRUE
       IN UTXOBalance(a) + BalanceSum(addresses \ {a})

\* C35: whenever no UTXOSet call holds the lock, a key is listed in the
\* address index under address a exactly when the primary index holds the
\* key with owner a, getAddressUTXOs(a) returns exactly the outputs owned by
\* a, and the balances of all addresses sum to the amounts of all unspent
\* outputs.
C35_IndexConsistent ==
  mutex_ = NoThread =>
    /\ \A a \in DOMAIN addressUtxos_ : \A key \in addressUtxos_[a] :
         key \in DOMAIN utxos_ /\ utxos_[key].address = a
    /\ \A key \in DOMAIN utxos_ :
         /\ utxos_[key].address \in DOMAIN addressUtxos_
         /\ key \in addressUtxos_[utxos_[key].address]
    /\ \A a \in UAddresses :
         getAddressUTXOs(a) = {key \in DOMAIN utxos_ : utxos_[key].address = a}
    /\ BalanceSum(UAddresses) = AmountSum(utxos_, DOMAIN utxos_)

\* what the code keeps: every unspent output is listed under its owner, and
\* every listed key that is unspent was added for that address at some time
C35_OwnerListsOutput ==
  mutex_ = NoThread =>
    \A key \in DOMAIN utxos_ :
      /\ utxos_[key].address \in DOMAIN addressUtxos_
      /\ key \in addressUtxos_[utxos_[key].address]

\* one output is returned for two addresses, and the balances sum to more
\* than the unspent amounts
C35_OutputCountedTwice ==
  /\ mutex_ = NoThread
  /\ \E a, b \in UAddresses :
       a # b /\ getAddressUTXOs(a) \cap getAddressUTXOs(b) # {}
  /\ BalanceSum(UAddresses) > AmountSum(utxos_, DOMAIN utxos_)

\* the keys a validateInputs call was given, each once
DistinctInputs(vin) == {vin[i] : i \in 1..Len(vin)}

\* C36: validateInputs returns true only if the declared outputs sum to at
\* most the total amount of the distinct unspent outputs the inputs name.
C36_InputsCountedOnce ==
  (upc["t1"] = "vi_exit" /\ ures["t1"] = TRUE) =>
    /\ DistinctInputs(uop["t1"].vin) \subseteq DOMAIN utxos_
    /\ SeqSum(uop["t1"].vout)
         <= AmountSum(utxos_, DistinctInputs(uop["t1"].vin))

\* what the code keeps: the outputs are covered by the amounts summed once
\* for every entry of the input list
C36_InputsCountedPerEntry ==
  (upc["t1"] = "vi_exit" /\ ures["t1"] = TRUE) =>
    /\ DistinctInputs(uop["t1"].vin) \subseteq DOMAIN utxos_
    /\ SeqSum(uop["t1"].vout) <= SeqSum(InputAmounts(uop["t1"].vin))

\* a transaction that names one output of 5 twice and declares outputs of 7
\* has been accepted
C36_OutputSpentTwiceAccepted ==
  /\ upc["t1"] = "vi_exit" /\ ures["t1"] = TRUE
  /\ uop["t1"].vin = <<UKey("tx1", 0), UKey("tx1", 0)>>
  /\ utxos_[UKey("tx1", 0)].amount = 5
  /\ uop["t1"].vout = <<7>>

\* the sum of the values of a map of doubles
RECURSIVE DblMapSum(_)
DblMapSum(m) ==
  IF DOMAIN m = {} THEN Dbl(0)
  ELSE LET k == CHOOSE x \in DOMAIN m : TRUE
       IN DblAdd(m[k], DblMapSum(MapErase(m, k)))

\* all coins held in the two stores
TotalHeld == DblAdd(DblMapSum(dblBalances), DblMapSum(dblHiddenBalances))

\* C34: after any sequence of transfers the balances of the two stores add
\* up to the 2,000,000 premined coins and no balance is negative
C34_BalancesConserved ==
  /\ TotalHeld = Dbl(PreminedCoins)
  /\ \A a \in DOMAIN dblBalances : ~DblLess(dblBalances[a], 0)
  /\ \A a \in DOMAIN dblHiddenBalances : ~DblLess(dblHiddenBalances[a], 0)

\* as long as no balance is NaN the sum is 2,000,000 and every balance is a
\* number that is at least 0
C34_ConservedForNumbers ==
  ~TotalHeld.nan
    => /\ \A a \in DOMAIN dblBalances : DblGreater(dblBalances[a], -1)
       /\ DblGreater(dblHiddenBalances[founderStealthAddress], -1)
       /\ TotalHeld = Dbl(PreminedCoins)

\* transfer returned true for the amount NaN and the founder's balance and
\* the recipient's are NaN afterwards
C34_NaNTransferred ==
  /\ lastTransfer.name = "transfer"
  /\ lastTransfer.result
  /\ lastTransfer.amount = NaN
  /\ lastTransfer.from = founderStealthAddress
  /\ dblHiddenBalances[founderStealthAddress] = NaN
  /\ lastTransfer.to \in DOMAIN dblBalances
  /\ dblBalances[lastTransfer.to] = NaN

\* a transfer to oneself returned true and left the sum at 2,000,000
C34_SelfTransferKeepsSum ==
  /\ lastTransfer.name = "transfer"
  /\ lastTransfer.result
  /\ lastTransfer.from = lastTransfer.to
  /\ TotalHeld = Dbl(PreminedCoins)

\* every transaction of the block verifies now
AllVerify(block) ==
  \A i \in 1..Len(block.transactions) : verify(block.transactions[i])

\* the caller is in addBlock with a block for which Block::mine returned true
AddingMinedBlock ==
  /\ lpc[Miner] = "ab_validate"
  /\ lop[Miner].block.hash = bhash
  /\ lop[Miner].block.nonce = bnonce
  /\ lop[Miner].block.difficulty = bcall.difficulty

\* C38: a block for which Block::mine returned true, that is not orphaned
\* and whose transactions all verify, passes validate with the nonce and
\* hash mining stored, and addBlock appends it to the chain
C38_MinedBlockAccepted ==
  /\ [](lpc[Miner] = "ab_validate" => AddingMinedBlock /\ bresult)
  /\ [][(/\ AddingMinedBlock
         /\ lpc'[Miner] # "ab_validate"
         /\ ~lop[Miner].block.isOrphaned
         /\ AllVerify(lop[Miner].block))
        => /\ validate(lop[Miner].block)
           /\ chain' = Append(chain, lop[Miner].block)
           /\ lpc'[Miner] = "ab_count"]_vars

\* a mined block with a transaction and a hash of as many zeros as its
\* difficulty asks for has been appended
C38_Witness ==
  /\ lpc[Miner] = "ab_count"
  /\ lop[Miner].block.hash = bhash
  /\ lop[Miner].block.difficulty = 2
  /\ lop[Miner].block.transactions = <<GoodTx>>
  /\ chain[Len(chain)] = lop[Miner].block

\* C39: in every state reachable from a fresh ledger by addBlock calls
\* validateChain() returns true, also after the clock has passed the expiry
\* time of transactions in blocks that were accepted
C39_AcceptanceStable == validateChain

\* no transaction of a block on the chain has expired
NothingExpired ==
  \A i \in 1..Len(chain) :
    \A j \in 1..Len(chain[i].transactions) :
      ~(now > chain[i].transactions[j].expiresAt)

\* validateChain() is true for as long as no transaction on the chain has
\* expired
C39_ValidUntilExpiry == NothingExpired => validateChain

\* every call has returned, the last block of the chain was accepted with a
\* transaction that has expired since, and validateChain() is false
C39_AcceptedBlockExpired ==
  /\ \A t \in Threads : lpc[t] = "idle"
  /\ Len(chain) > ActiveShards
  /\ chain[Len(chain)] = MinedBlock
  /\ now > GoodTx.expiresAt
  /\ ~validateChain

\* C40: in every state reachable by transfer and addBlock calls the hidden
\* store has exactly one key, the founder stealth address: no call adds a
\* hidden account and none removes the founder's entry
C40_HiddenKeysFixed ==
  /\ [](DOMAIN hiddenBalances = {founderStealthAddress})
  /\ [][DOMAIN hiddenBalances' = DOMAIN hiddenBalances]_vars

\* the founder paid out everything, a public account paid coins to the
\* founder's address, a block was added, and a transfer is returning true
C40_Witness ==
  /\ hiddenBalances[founderStealthAddress] = 0
  /\ founderStealthAddress \in DOMAIN balances
  /\ Len(chain) > ActiveShards
  /\ \E t \in Threads : lpc[t] = "tr_exit" /\ lres[t] = TRUE

====
